---- MODULE Spec2Model ----
(***************************************************************************)
(* A model of the fraud-detection ingestion-to-alert pipeline:             *)
(*   DataPreprocessor  (ml/src/dataPreprocessor.js)                        *)
(*   FraudDetectionModel.ruleBasedPrediction (ml/src/fraudDetectionModel)  *)
(*   DatabaseService.saveTransactions (ml/src/databaseService.js)          *)
(*   POST /process-csv (ml/src/index.js)                                   *)
(*                                                                         *)
(* JavaScript values are records [t, s, n]: t is the type tag, s the       *)
(* characters of a string (a sequence of one-character strings), n the     *)
(* value of a number.  Amounts are counted in cents (1/100), probabilities *)
(* in units of 1/100000.                                                   *)
(***************************************************************************)
EXTENDS Integers, Sequences, FiniteSets, TLC

VARIABLES
    fsFiles,        \* uploads: the paths of the files in the two uploads directories
    upReqs,         \* uploads: the requests to POST /api/upload of the backend
    mlReqs,         \* uploads: the requests to POST /process-csv of the ML service
    tStore,         \* backend transactions: the collection of the Transaction model
    tReqs,          \* backend transactions: the requests creating transactions
    kKeys,          \* API keys: the apikeys collection
    kIssued,        \* API keys: the responses of creation and rotation, in order
    kReqs,          \* API keys: the requests passing through apiKeyAuth
    kAdmitted,      \* API keys: per key, the requests admitted since the last reset
    kNow,           \* API keys: the clock, in years
    rawData,        \* preprocessor: the rows read from the CSV file
    cleanedData,    \* preprocessor: cleanData(rawData), or <<>> before it ran
    keptRows,       \* preprocessor: the indices of the rows of rawData it kept
    recleaned,      \* cleanData applied to its own output
    normPc,         \* "read" | "cleaned" | "recleaned"
    scoreRow,       \* scorer: the feature row handed to ruleBasedPrediction
    scoreRnd,       \* scorer: the value of Math.random() * 0.3, in 1/100000
    prediction,     \* scorer: the prediction returned for scoreRow
    scorePc,        \* "input" | "scored"
    transactions,   \* store: the transactions collection, in insertion order
    alerts,         \* store: the alerts collection, in insertion order
    saveResult,     \* store: what the last saveTransactions call returned
    lastAlertDocs,  \* store: the alertDocs the last call built
    lastBatch,      \* store: the predictions the last call was given
    saveCalls,      \* store: number of saveTransactions calls so far
    submitted,      \* store: number of predictions handed to saveTransactions so far
    nextId,         \* store: the next _id the driver hands out
    lastQuery,      \* store: the outcome of the last GET /stats or PATCH /alerts/:id
    pipeInput,      \* pipeline: the rows of the uploaded file
    pipeResponse,   \* pipeline: the response of POST /process-csv
    pipePredictions,\* pipeline: the predictions of the run
    pipeFault,      \* pipeline: the I/O or database failure met during the run
    pipePc,         \* pipeline: "idle" | "responded"
    bTransactions,  \* backend: the Transaction collection (mongoose)
    bAlerts,        \* backend: the Alert collection (mongoose), in insertion order
    bResponse,      \* backend: the response to the last request
    bClock          \* backend: the clock, one tick per request

vars == <<rawData, cleanedData, keptRows, recleaned, normPc, scoreRow, scoreRnd, prediction,
          scorePc, transactions, alerts, saveResult, lastAlertDocs, lastBatch,
          saveCalls, submitted, nextId, lastQuery, pipeInput, pipeResponse, pipePredictions, pipeFault,
          pipePc, bTransactions, bAlerts, bResponse, bClock,
          kKeys, kIssued, kReqs, kAdmitted, kNow, tStore, tReqs, fsFiles, upReqs, mlReqs>>

normVars == <<rawData, cleanedData, keptRows, recleaned, normPc>>
scoreVars == <<scoreRow, scoreRnd, prediction, scorePc>>
storeVars == <<transactions, alerts, saveResult, lastAlertDocs, lastBatch, saveCalls, submitted,
               nextId>>
queryVars == <<lastQuery>>
backendVars == <<bTransactions, bAlerts, bResponse, bClock>>
keyVars == <<kKeys, kIssued, kReqs, kAdmitted, kNow>>
txVars == <<tStore, tReqs>>
uploadVars == <<fsFiles, upReqs, mlReqs>>
apiVars == <<keyVars, txVars, uploadVars>>
pipeVars == <<pipeInput, pipeResponse, pipePredictions, pipeFault, pipePc>>

----------------------------------------------------------------------------
(* JavaScript values *)

Undef == [t |-> "undef", s |-> <<>>, n |-> 0]
Null == [t |-> "null", s |-> <<>>, n |-> 0]
NaN == [t |-> "nan", s |-> <<>>, n |-> 0]
Str(chars) == [t |-> "str", s |-> chars, n |-> 0]
Num(k) == [t |-> "num", s |-> <<>>, n |-> k]

\* ToBoolean: undefined, null, NaN, "" and 0 are falsy.
Truthy(v) ==
    CASE v.t = "str" -> v.s # <<>>
      [] v.t = "num" -> v.n # 0
      [] OTHER -> FALSE

\* a || b
Or(a, b) == IF Truthy(a) THEN a ELSE b

----------------------------------------------------------------------------
(* String primitives of the JavaScript runtime, over character sequences *)

Digits == <<"0", "1", "2", "3", "4", "5", "6", "7", "8", "9">>
UpperChars == <<"A", "B", "C", "D", "E", "F", "G", "H", "I", "J", "K", "L", "M",
                "N", "O", "P", "Q", "R", "S", "T", "U", "V", "W", "X", "Y", "Z">>
LowerChars == <<"a", "b", "c", "d", "e", "f", "g", "h", "i", "j", "k", "l", "m",
                "n", "o", "p", "q", "r", "s", "t", "u", "v", "w", "x", "y", "z">>

IsDigit(c) == \E i \in 1..Len(Digits) : Digits[i] = c
DigitVal(c) == (CHOOSE i \in 1..Len(Digits) : Digits[i] = c) - 1
IsLowerAZ(c) == \E i \in 1..Len(LowerChars) : LowerChars[i] = c

toLowerCaseChar(c) ==
    IF \E i \in 1..Len(UpperChars) : UpperChars[i] = c
    THEN LowerChars[CHOOSE i \in 1..Len(UpperChars) : UpperChars[i] = c]
    ELSE c

\* String.prototype.toLowerCase
toLowerCase(s) == [i \in 1..Len(s) |-> toLowerCaseChar(s[i])]

RECURSIVE trimStart(_)
trimStart(s) == IF s # <<>> /\ Head(s) = " " THEN trimStart(Tail(s)) ELSE s

RECURSIVE trimEnd(_)
trimEnd(s) ==
    IF s # <<>> /\ s[Len(s)] = " " THEN trimEnd(SubSeq(s, 1, Len(s) - 1)) ELSE s

\* String.prototype.trim
trim(s) == trimEnd(trimStart(s))

\* String.prototype.includes
includes(s, sub) ==
    \E i \in 1..(Len(s) - Len(sub) + 1) : SubSeq(s, i, i + Len(sub) - 1) = sub

\* String.prototype.replace(/[,$]/g, '')
stripCurrency(s) == SelectSeq(s, LAMBDA c : c # "," /\ c # "$")

\* String.prototype.replace(/[^a-z]/g, '_')
underscoreNonLetters(s) == [i \in 1..Len(s) |-> IF IsLowerAZ(s[i]) THEN s[i] ELSE "_"]

\* The longest prefix of s made of digits.
RECURSIVE digitPrefix(_)
digitPrefix(s) ==
    IF s # <<>> /\ IsDigit(Head(s)) THEN <<Head(s)>> \o digitPrefix(Tail(s)) ELSE <<>>

RECURSIVE digitsValue(_)
digitsValue(ds) ==
    IF ds = <<>> THEN 0 ELSE 10 * digitsValue(SubSeq(ds, 1, Len(ds) - 1)) + DigitVal(ds[Len(ds)])

\* The first two fraction digits, as cents.
fractionCents(fp) ==
    CASE Len(fp) = 0 -> 0
      [] Len(fp) = 1 -> 10 * DigitVal(fp[1])
      [] OTHER -> 10 * DigitVal(fp[1]) + DigitVal(fp[2])

\* parseFloat: leading white space is skipped, then an optional sign and the
\* longest prefix that reads as a decimal literal is converted; whatever follows
\* it is ignored; NaN when no such prefix exists.  The value is in cents.
parseFloat(s) ==
    LET t == trimStart(s)
        neg == t # <<>> /\ Head(t) = "-"
        u == IF t # <<>> /\ (Head(t) = "-" \/ Head(t) = "+") THEN Tail(t) ELSE t
        ip == digitPrefix(u)
        rest == SubSeq(u, Len(ip) + 1, Len(u))
        fp == IF rest # <<>> /\ Head(rest) = "." THEN digitPrefix(Tail(rest)) ELSE <<>>
        mag == 100 * digitsValue(ip) + fractionCents(fp)
    IN  IF ip = <<>> /\ fp = <<>> THEN NaN
        ELSE Num(IF neg THEN 0 - mag ELSE mag)

RECURSIVE natToString(_)
natToString(k) ==
    IF k < 10 THEN <<Digits[k + 1]>> ELSE natToString(k \div 10) \o <<Digits[(k % 10) + 1]>>

\* Number.prototype.toString of a positive amount held in cents.
numberToString(c) ==
    LET ip == natToString(c \div 100)
        f == c % 100
    IN  CASE f = 0 -> ip
          [] f % 10 = 0 -> ip \o <<".", Digits[(f \div 10) + 1]>>
          [] OTHER -> ip \o <<".", Digits[(f \div 10) + 1], Digits[(f % 10) + 1]>>

\* String(value)
String(v) ==
    CASE v.t = "str" -> v.s
      [] v.t = "num" -> numberToString(v.n)
      [] v.t = "null" -> <<"n", "u", "l", "l">>
      [] v.t = "nan" -> <<"N", "a", "N">>
      [] OTHER -> <<"u", "n", "d", "e", "f", "i", "n", "e", "d">>

----------------------------------------------------------------------------
(* Date: timestamps are hours of one day.  The text <<"Z", d1, d2>> is the     *)
(* ISO-8601 form of hour d1d2, <<"L", d1, d2>> another form Date can parse;    *)
(* every other text parses to an invalid date.                                 *)

IsDateText(s) ==
    /\ Len(s) = 3
    /\ s[1] \in {"Z", "L"}
    /\ IsDigit(s[2]) /\ IsDigit(s[3])
    /\ 10 * DigitVal(s[2]) + DigitVal(s[3]) < 24

\* new Date(text).getTime(); NaN for an invalid date
dateParse(s) ==
    IF IsDateText(s) THEN Num(10 * DigitVal(s[2]) + DigitVal(s[3])) ELSE NaN

\* Date.prototype.toISOString
toISOString(h) == <<"Z", Digits[(h \div 10) + 1], Digits[(h % 10) + 1]>>

\* new Date(text).getHours()
getHours(s) == dateParse(s).n

----------------------------------------------------------------------------
(* DataPreprocessor *)

RowFields ==
    {"Transaction_ID", "TransactionID", "transaction_id", "id",
     "Amount", "amount", "AMOUNT",
     "Merchant", "merchant", "MERCHANT", "merchant_name",
     "Category", "category", "CATEGORY", "merchant_category",
     "User_ID", "UserID", "user_id", "customer_id",
     "Timestamp", "timestamp", "date", "Date", "transaction_date",
     "Location", "location", "LOCATION", "city",
     "Payment_Method", "payment_method", "PaymentMethod", "card_type"}

\* A row none of whose columns is present.
EmptyRow == [f \in RowFields |-> Undef]

\* Reading a cleaned record as a row: the columns it lacks are undefined.
AsRow(rec) == [f \in RowFields |-> IF f \in DOMAIN rec THEN rec[f] ELSE Undef]

isEmpty(value) ==
    \/ value.t = "null"
    \/ value.t = "undef"
    \/ (value.t = "str" /\ value.s = <<>>)
    \/ (value.t = "str" /\ trim(value.s) = <<>>)
    \/ (value.t = "str" /\ value.s = <<"n", "u", "l", "l">>)
    \/ (value.t = "str" /\ value.s = <<"N", "U", "L", "L">>)
    \/ (value.t = "str" /\ value.s = <<"N", "/", "A">>)
    \/ (value.t = "str" /\ value.s = <<"n", "/", "a">>)

isValidRow(row) ==
    LET hasTransactionId ==
            Or(Or(Or(row.Transaction_ID, row.TransactionID), row.transaction_id), row.id)
        hasAmount == Or(row.Amount, row.amount)
    IN  Truthy(hasTransactionId) /\ Truthy(hasAmount) /\ ~isEmpty(hasAmount)

\* `TXN-${Date.now()}-${random}`: rnd stands for the clock and random part.
generatedId(rnd) == Str(<<"T", "X", "N", "-">> \o rnd)

normalizeTransactionId(row, rnd) ==
    LET id == Or(Or(Or(row.Transaction_ID, row.TransactionID), row.transaction_id), row.id)
    IN  IF /\ Truthy(id)
           /\ trim(String(id)) # <<>>
           /\ id # Str(<<"n", "u", "l", "l">>)
           /\ id # Str(<<"u", "n", "d", "e", "f", "i", "n", "e", "d">>)
        THEN Str(trim(String(id)))
        ELSE generatedId(rnd)

normalizeAmount(row) ==
    LET amount == Or(Or(row.Amount, row.amount), row.AMOUNT)
        numAmount == parseFloat(stripCurrency(String(amount)))
    IN  IF isEmpty(amount) THEN Null
        ELSE IF numAmount.t = "nan" \/ numAmount.n <= 0 THEN Null ELSE numAmount

UnknownMerchant == Str(<<"U", "n", "k", "n", "o", "w", "n", " ", "M", "e", "r", "c", "h", "a", "n", "t">>)

normalizeMerchant(row) ==
    Or(Or(Or(Or(row.Merchant, row.merchant), row.MERCHANT), row.merchant_name), UnknownMerchant)

CatEcommerce == <<"E", "-", "c", "o", "m", "m", "e", "r", "c", "e">>
CatRetail == <<"R", "e", "t", "a", "i", "l">>
CatGas == <<"G", "a", "s">>
CatFood == <<"F", "o", "o", "d">>
CatATM == <<"A", "T", "M">>
CatOnline == <<"O", "n", "l", "i", "n", "e">>
CatOther == <<"O", "t", "h", "e", "r">>

validCategories == <<CatEcommerce, CatRetail, CatGas, CatFood, CatATM, CatOnline, CatOther>>

\* normalizeCategory were it to keep a category it cannot match.
normalizeCategoryKeepUnmatched(row) ==
    LET category == Or(Or(Or(row.Category, row.category), row.CATEGORY), row.merchant_category)
        matches == {i \in 1..Len(validCategories) :
                        toLowerCase(validCategories[i]) = toLowerCase(String(category))}
    IN  IF ~Truthy(category) THEN Str(CatOther)
        ELSE IF matches # {}
             THEN Str(validCategories[CHOOSE i \in matches : \A j \in matches : i <= j])
             ELSE category

normalizeCategory(row) ==
    LET category == Or(Or(Or(row.Category, row.category), row.CATEGORY), row.merchant_category)
        matches == {i \in 1..Len(validCategories) :
                        toLowerCase(validCategories[i]) = toLowerCase(String(category))}
    IN  IF ~Truthy(category) THEN Str(CatOther)
        ELSE IF matches # {}
             THEN Str(validCategories[CHOOSE i \in matches : \A j \in matches : i <= j])
             ELSE Str(CatOther)

\* `USER-${Math.floor(Math.random() * 10000)}`
generatedUserId(rnd) == Str(<<"U", "S", "E", "R", "-">> \o rnd)

normalizeUserId(row, rnd) ==
    Or(Or(Or(Or(row.User_ID, row.UserID), row.user_id), row.customer_id), generatedUserId(rnd))

normalizeTimestamp(row, now) ==
    LET timestamp ==
            Or(Or(Or(Or(row.Timestamp, row.timestamp), row.date), row.Date), row.transaction_date)
        date == dateParse(String(timestamp))
    IN  IF ~Truthy(timestamp) THEN Str(toISOString(now))
        ELSE IF date.t = "nan" THEN Str(toISOString(now)) ELSE Str(toISOString(date.n))

UnknownLocation == Str(<<"U", "n", "k", "n", "o", "w", "n">>)

normalizeLocation(row) ==
    Or(Or(Or(Or(row.Location, row.location), row.LOCATION), row.city), UnknownLocation)

PayCreditCard == <<"c", "r", "e", "d", "i", "t", "_", "c", "a", "r", "d">>
PayDebitCard == <<"d", "e", "b", "i", "t", "_", "c", "a", "r", "d">>
PayBankTransfer == <<"b", "a", "n", "k", "_", "t", "r", "a", "n", "s", "f", "e", "r">>
PayDigitalWallet == <<"d", "i", "g", "i", "t", "a", "l", "_", "w", "a", "l", "l", "e", "t">>
PayOther == <<"o", "t", "h", "e", "r">>

validMethods == {PayCreditCard, PayDebitCard, PayBankTransfer, PayDigitalWallet, PayOther}

normalizePaymentMethod(row) ==
    LET method ==
            Or(Or(Or(row.Payment_Method, row.payment_method), row.PaymentMethod), row.card_type)
        normalizedMethod == underscoreNonLetters(toLowerCase(String(method)))
    IN  IF ~Truthy(method) THEN Str(PayCreditCard)
        ELSE IF normalizedMethod \in validMethods THEN Str(normalizedMethod) ELSE Str(PayOther)

\* cleanRow: the cleaned record, or Null when it is rejected.  env gives the
\* clock and the random draws of this call: [now, idRnd, userRnd].
cleanRow(row, env) ==
    LET cleanedRow ==
            [Transaction_ID |-> normalizeTransactionId(row, env.idRnd),
             Amount |-> normalizeAmount(row),
             Merchant |-> normalizeMerchant(row),
             Category |-> normalizeCategory(row),
             User_ID |-> normalizeUserId(row, env.userRnd),
             Timestamp |-> normalizeTimestamp(row, env.now),
             Location |-> normalizeLocation(row),
             Payment_Method |-> normalizePaymentMethod(row)]
    IN  IF ~Truthy(cleanedRow.Transaction_ID) \/ ~Truthy(cleanedRow.Amount)
        THEN Null
        ELSE cleanedRow

\* The indices of the rows of data that cleanData keeps, in order.
RECURSIVE keptIndices(_, _, _)
keptIndices(data, envs, i) ==
    IF i > Len(data) THEN <<>>
    ELSE IF isValidRow(data[i]) /\ cleanRow(data[i], envs[i]) # Null
         THEN <<i>> \o keptIndices(data, envs, i + 1)
         ELSE keptIndices(data, envs, i + 1)

\* cleanData: filter(isValidRow), map(cleanRow), filter(row !== null).
\* envs[i] is the clock and random draws of the cleanRow call for data[i].
cleanData(data, envs) ==
    LET kept == keptIndices(data, envs, 1)
    IN  [k \in 1..Len(kept) |-> cleanRow(data[kept[k]], envs[kept[k]])]

getCategoryRiskScore(category) ==
    CASE category = CatATM -> 8
      [] category = CatOnline -> 7
      [] category = CatGas -> 6
      [] category = CatEcommerce -> 5
      [] category = CatFood -> 3
      [] category = CatRetail -> 4
      [] OTHER -> 5

\* engineerFeatures, for one row (Amount_Log, a logarithm, is left out: no rule
\* of the scorer reads it).
engineerRow(row) ==
    LET hour == getHours(row.Timestamp.s)
    IN  [Transaction_ID |-> row.Transaction_ID,
         Amount |-> row.Amount,
         Merchant |-> row.Merchant,
         Category |-> row.Category,
         User_ID |-> row.User_ID,
         Timestamp |-> row.Timestamp,
         Location |-> row.Location,
         Payment_Method |-> row.Payment_Method,
         Hour_of_Day |-> hour,
         Is_Night_Transaction |-> IF hour >= 22 \/ hour <= 6 THEN 1 ELSE 0,
         Is_High_Amount |-> IF row.Amount.n > 100000 THEN 1 ELSE 0,
         Category_Risk_Score |-> getCategoryRiskScore(row.Category.s),
         Is_Foreign |-> IF Truthy(row.Location)
                           /\ ~includes(toLowerCase(row.Location.s), <<"u", "s">>)
                        THEN 1 ELSE 0]

engineerFeatures(data) == [i \in 1..Len(data) |-> engineerRow(data[i])]

----------------------------------------------------------------------------
(* Inputs of the preprocessor *)

MaxRows == 2

T1 == <<"T", "1">>
T2 == <<"T", "2">>

BaseRow == [EmptyRow EXCEPT !.Transaction_ID = Str(T1), !.Amount = Str(<<"5", "0">>)]

\* The rows a file may hold.  Column values are the texts csv-parser yields;
\* a column the file lacks is undefined.
RowSamples ==
    {BaseRow,
     [BaseRow EXCEPT !.Transaction_ID = Str(<<" ", "T", "1">>),
                     !.Amount = Str(<<"1", ",", "5", "0", "0">>),
                     !.Category = Str(<<"a", "t", "m">>),
                     !.Payment_Method = Str(<<"C", "r", "e", "d", "i", "t", " ", "C", "a", "r", "d">>),
                     !.Timestamp = Str(<<"L", "0", "3">>),
                     !.Location = Str(<<"P", "a", "r", "i", "s">>),
                     !.Merchant = Str(<<"M">>),
                     !.User_ID = Str(<<"U", "1">>)],
     [BaseRow EXCEPT !.Transaction_ID = Str(<<"n", "u", "l", "l">>),
                     !.Amount = Str(<<"$", "1", "0", "0">>),
                     !.Category = Str(<<"C", "r", "y", "p", "t", "o">>),
                     !.Payment_Method = Str(<<"P", "a", "y", "P", "a", "l">>),
                     !.Timestamp = Str(<<"s", "o", "o", "n">>),
                     !.city = Str(<<"R", "U", "S", "K">>)],
     [BaseRow EXCEPT !.Transaction_ID = Str(<<" ", "n", "u", "l", "l", " ">>),
                     !.Amount = Str(<<"9", "9", ".", "5">>),
                     !.merchant_category = Str(CatFood),
                     !.card_type = Str(PayBankTransfer),
                     !.date = Str(<<"Z", "2", "3">>)],
     [BaseRow EXCEPT !.Transaction_ID = Str(<<" ">>), !.Amount = Str(<<"1", "2", "a">>)],
     [BaseRow EXCEPT !.Transaction_ID = Str(<<>>), !.id = Str(T2),
                     !.Amount = Str(<<>>), !.amount = Str(<<"7", "5">>)],
     [BaseRow EXCEPT !.Transaction_ID = Undef, !.transaction_id = Str(T2),
                     !.Amount = Str(<<"N", "/", "A">>), !.amount = Str(<<"7", "5">>)],
     [BaseRow EXCEPT !.Transaction_ID = Undef],
     [BaseRow EXCEPT !.Amount = Str(<<"0">>)],
     [BaseRow EXCEPT !.Amount = Str(<<"-", "5">>)],
     [BaseRow EXCEPT !.Amount = Str(<<"a", "b", "c">>)],
     [BaseRow EXCEPT !.Amount = Str(<<" ">>)],
     [BaseRow EXCEPT !.Amount = Undef, !.AMOUNT = Str(<<"7", "5">>)]}

Batches(S, n) == UNION {[1..k -> S] : k \in 0..n}

\* The clock and the random draws of one cleanData call: the hour of "now" and
\* the random part of the identifiers it generates.
CallEnvs == {[now |-> 3, rnd |-> "p"], [now |-> 14, rnd |-> "q"]}

\* The draws of the cleanRow call for row i: generated identifiers differ from
\* row to row.
RowEnvs(env, n) ==
    [i \in 1..n |-> [now |-> env.now,
                     idRnd |-> <<env.rnd>> \o natToString(i),
                     userRnd |-> <<env.rnd>> \o natToString(i)]]

NoRows == <<>>

NormInit ==
    /\ rawData \in Batches(RowSamples, MaxRows)
    /\ cleanedData = NoRows
    /\ keptRows = NoRows
    /\ recleaned = NoRows
    /\ normPc = "read"

\* cleanedData = this.cleanData(rawData)
Clean ==
    /\ normPc = "read"
    /\ \E env \in CallEnvs :
        /\ cleanedData' = cleanData(rawData, RowEnvs(env, Len(rawData)))
        /\ keptRows' = keptIndices(rawData, RowEnvs(env, Len(rawData)), 1)
    /\ normPc' = "cleaned"
    /\ UNCHANGED <<rawData, recleaned>>

\* cleanData applied to the records it returned
CleanAgain ==
    /\ normPc = "cleaned"
    /\ \E env \in CallEnvs :
        recleaned' = cleanData([i \in 1..Len(cleanedData) |-> AsRow(cleanedData[i])],
                               RowEnvs(env, Len(cleanedData)))
    /\ normPc' = "recleaned"
    /\ UNCHANGED <<rawData, cleanedData, keptRows>>

----------------------------------------------------------------------------
(* FraudDetectionModel.  Scores and probabilities are in units of 1/100000;   *)
(* the sums are exact (binary floating-point error is not modelled).         *)

BaseScore == 20000
HighAmountWeight == 60000
MediumAmountWeight == 40000
AboveAverageWeight == 20000
NightWeight == 30000
AtmWeight == 40000
OnlineWeight == 30000
CommonCategoryWeight == 10000
ForeignWeight == 40000
DigitalWalletWeight == 20000
CreditCardWeight == 15000
EarlyMorningWeight == 25000
RoundAmountWeight == 10000
MinProbability == 10000
MaxProbability == 100000
FraudFlagThreshold == 30000
HighRiskThreshold == 50000
MediumRiskThreshold == 30000

\* One rule: the weight it adds and the reason it pushes (<<>> when it adds none).
Rule(fires, weight, reason) ==
    IF fires THEN [w |-> weight, r |-> <<reason>>] ELSE [w |-> 0, r |-> <<>>]

amountRuleNoHighTier(row) ==
    IF row.Amount.n > 50000
    THEN Rule(TRUE, MediumAmountWeight, "Medium transaction amount (>$500)")
    ELSE Rule(row.Amount.n > 10000, AboveAverageWeight, "Above average amount (>$100)")

\* The amount rule were every tier to weigh the same.
amountRuleFlatTiers(row) ==
    IF row.Amount.n > 100000
    THEN Rule(TRUE, AboveAverageWeight, "High transaction amount (>$1000)")
    ELSE IF row.Amount.n > 50000
         THEN Rule(TRUE, AboveAverageWeight, "Medium transaction amount (>$500)")
         ELSE Rule(row.Amount.n > 10000, AboveAverageWeight, "Above average amount (>$100)")

amountRule(row) ==
    IF row.Amount.n > 100000
    THEN Rule(TRUE, HighAmountWeight, "High transaction amount (>$1000)")
    ELSE IF row.Amount.n > 50000
         THEN Rule(TRUE, MediumAmountWeight, "Medium transaction amount (>$500)")
         ELSE Rule(row.Amount.n > 10000, AboveAverageWeight, "Above average amount (>$100)")

nightRule(row) ==
    Rule(row.Is_Night_Transaction # 0 \/ row.Hour_of_Day >= 22 \/ row.Hour_of_Day <= 6,
         NightWeight, "Night time transaction (high risk)")

categoryRule(row) ==
    IF row.Category.s = CatATM
    THEN Rule(TRUE, AtmWeight, "ATM transaction (very high risk)")
    ELSE IF row.Category.s = CatOnline \/ row.Category.s = CatEcommerce
         THEN Rule(TRUE, OnlineWeight, "Online/E-commerce transaction (high risk)")
         ELSE Rule(row.Category.s = CatGas \/ row.Category.s = CatFood,
                   CommonCategoryWeight, "Common fraud category")

foreignRule(row) ==
    Rule(row.Is_Foreign # 0, ForeignWeight, "Foreign transaction (very high risk)")

paymentRule(row) ==
    IF row.Payment_Method.s = PayDigitalWallet
    THEN Rule(TRUE, DigitalWalletWeight, "Digital wallet payment (higher risk)")
    ELSE Rule(row.Payment_Method.s = PayCreditCard, CreditCardWeight, "Credit card transaction")

\* new Date(row.Timestamp || Date.now()).getHours() in 0..7
earlyMorningRule(row, now) ==
    LET hour == IF Truthy(row.Timestamp) THEN getHours(row.Timestamp.s) ELSE now
    IN  Rule(hour >= 0 /\ hour <= 7, EarlyMorningWeight, "Very early morning transaction")

\* row.Amount && row.Amount % 100 === 0
roundAmountRule(row) ==
    Rule(Truthy(row.Amount) /\ row.Amount.n % 10000 = 0,
         RoundAmountWeight, "Round number amount (suspicious pattern)")

\* The rules were the round-number rule evaluated first.
firedRulesRoundFirst(row, now) ==
    <<roundAmountRule(row), amountRule(row), nightRule(row), categoryRule(row),
      foreignRule(row), paymentRule(row), earlyMorningRule(row, now)>>

\* The rules in the order ruleBasedPrediction evaluates them.
firedRules(row, now) ==
    <<amountRule(row), nightRule(row), categoryRule(row), foreignRule(row),
      paymentRule(row), earlyMorningRule(row, now), roundAmountRule(row)>>

RECURSIVE sumWeights(_)
sumWeights(rules) == IF rules = <<>> THEN 0 ELSE Head(rules).w + sumWeights(Tail(rules))

RECURSIVE concatReasons(_)
concatReasons(rules) ==
    IF rules = <<>> THEN <<>> ELSE Head(rules).r \o concatReasons(Tail(rules))

\* fraudScore were it to start at 0.
ruleScoreNoBase(row, now) == sumWeights(firedRules(row, now))

\* fraudScore before the random term is added
ruleScore(row, now) == BaseScore + sumWeights(firedRules(row, now))

\* the reasons array
ruleReasons(row, now) == concatReasons(firedRules(row, now))

Max(a, b) == IF a >= b THEN a ELSE b
Min(a, b) == IF a <= b THEN a ELSE b

\* Math.max(0.1, Math.min(1, fraudScore))
clampProbabilityNoCeiling(fraudScore) == Max(MinProbability, fraudScore)

clampProbability(fraudScore) == Max(MinProbability, Min(MaxProbability, fraudScore))

\* parseFloat(fraudProb.toFixed(4)): rounded to the nearest 1/10000
toFixed4(p) == ((p + 5) \div 10) * 10

\* getRiskLevel were it without the MEDIUM level.
getRiskLevelNoMedium(fraudProb) ==
    IF fraudProb >= HighRiskThreshold THEN "HIGH" ELSE "LOW"

getRiskLevel(fraudProb) ==
    IF fraudProb >= HighRiskThreshold THEN "HIGH"
    ELSE IF fraudProb >= MediumRiskThreshold THEN "MEDIUM" ELSE "LOW"

\* The value ruleBasedPrediction maps one row to.  rnd is Math.random() * 0.3,
\* env the clock and random part of a generated Transaction_ID.
predictRow(row, rnd, env) ==
    LET fraudScore == ruleScore(row, env.now) + rnd
        reasons == ruleReasons(row, env.now)
        fraudProb == clampProbability(fraudScore)
    IN  [Transaction_ID |-> IF Truthy(row.Transaction_ID) THEN row.Transaction_ID
                            ELSE generatedId(env.idRnd),
         ml_pred_prob |-> toFixed4(fraudProb),
         fraud_flag |-> IF fraudProb > FraudFlagThreshold THEN 1 ELSE 0,
         risk_level |-> getRiskLevel(fraudProb),
         reason |-> IF Len(reasons) > 0 THEN reasons ELSE <<"Baseline fraud risk detected">>]

\* The predictions were they returned last row first.
ruleBasedPredictionReversed(data, rnds, envs) ==
    [i \in 1..Len(data) |->
        predictRow(data[Len(data) + 1 - i], rnds[Len(data) + 1 - i], envs[Len(data) + 1 - i])]

\* ruleBasedPrediction(data): rnds[i] is the random term drawn for data[i].
ruleBasedPrediction(data, rnds, envs) ==
    [i \in 1..Len(data) |-> predictRow(data[i], rnds[i], envs[i])]

----------------------------------------------------------------------------
(* Inputs of the scorer: the rows engineerFeatures makes of cleaned records *)

CleanedRecord(id, amount, category, hour, location, method) ==
    [Transaction_ID |-> Str(id),
     Amount |-> Num(amount),
     Merchant |-> UnknownMerchant,
     Category |-> Str(category),
     User_ID |-> Str(<<"U", "1">>),
     Timestamp |-> Str(toISOString(hour)),
     Location |-> Str(location),
     Payment_Method |-> Str(method)]

\* amounts in cents: 50, 100, 100.01, 250.50, 500, 500.01, 700, 1000, 1000.01,
\* 1234.56, 1500
AmountSamples == {5000, 10000, 10001, 25050, 50000, 50001, 70000, 100000, 100001, 123456,
                  150000}
HourSamples == {0, 6, 7, 8, 21, 22, 23}
CategorySamples == {CatEcommerce, CatRetail, CatGas, CatFood, CatATM, CatOnline, CatOther}
LocationSamples == {<<"A", "u", "s", "t", "i", "n">>, <<"P", "a", "r", "i", "s">>}
MethodSamples == {PayCreditCard, PayDebitCard, PayDigitalWallet}

\* Math.random() * 0.3 lies in [0, 0.3)
RandomSamples == {0, 3, 5, 4996, 5000, 9997, 10000, 20000, 29999}

FeatureRows ==
    {engineerRow(CleanedRecord(T1, a, c, h, l, m)) :
        a \in AmountSamples, c \in CategorySamples, h \in HourSamples,
        l \in LocationSamples, m \in MethodSamples}

NoPrediction == [Transaction_ID |-> Undef, ml_pred_prob |-> 0, fraud_flag |-> 0,
                 risk_level |-> "NONE", reason |-> <<>>]

ScoreEnv == [now |-> 3, idRnd |-> <<"p">>]

ScoreInit ==
    /\ scoreRow \in FeatureRows
    /\ scoreRnd \in RandomSamples
    /\ prediction = NoPrediction
    /\ scorePc = "input"

\* one element of data.map(row => ...) in ruleBasedPrediction
Score ==
    /\ scorePc = "input"
    /\ prediction' = predictRow(scoreRow, scoreRnd, ScoreEnv)
    /\ scorePc' = "scored"
    /\ UNCHANGED <<scoreRow, scoreRnd>>

----------------------------------------------------------------------------
(* DatabaseService: the two MongoDB collections and saveTransactions.        *)
(* A collection is the sequence of its documents in insertion order.         *)

\* createIndexes: transactions has a unique index on Transaction_ID, the index
\* of alerts on Transaction_ID is not unique.
TransactionsUnique == TRUE
AlertsUnique == FALSE

matching(coll, id) == {i \in 1..Len(coll) : coll[i].Transaction_ID = id}

\* The driver gives every document handed to insertMany an _id before it sends
\* the batch: the documents of docs become numbered first, first + 1, ...
withIds(docs, first) ==
    [i \in 1..Len(docs) |-> [f \in DOMAIN docs[i] \cup {"_id"} |->
                                IF f = "_id" THEN first + i - 1 ELSE docs[i][f]]]

\* collection.insertMany(docs, { ordered: false }): every document is tried; one
\* that would break a unique index is left out and counted as a write error.
insertManyAllowDuplicates(coll, docs, unique) ==
    [coll |-> coll \o docs, errors |-> 0]

\* insertMany were it ordered: it stops at the first document it cannot insert.
RECURSIVE insertManyOrdered(_, _, _)
insertManyOrdered(coll, docs, unique) ==
    IF docs = <<>> THEN [coll |-> coll, errors |-> 0]
    ELSE IF unique /\ matching(coll, Head(docs).Transaction_ID) # {}
         THEN [coll |-> coll, errors |-> 1]
         ELSE insertManyOrdered(Append(coll, Head(docs)), Tail(docs), unique)

RECURSIVE insertMany(_, _, _)
insertMany(coll, docs, unique) ==
    IF docs = <<>> THEN [coll |-> coll, errors |-> 0]
    ELSE IF unique /\ matching(coll, Head(docs).Transaction_ID) # {}
         THEN LET rest == insertMany(coll, Tail(docs), unique)
              IN  [coll |-> rest.coll, errors |-> rest.errors + 1]
         ELSE insertMany(Append(coll, Head(docs)), Tail(docs), unique)

\* collection.replaceOne({ Transaction_ID }, doc, { upsert: true }): the first
\* document with that Transaction_ID is replaced, or doc is inserted when there
\* is none.  The server refuses a replacement that would change the _id of the
\* stored document; fails says that this call fails for another reason.
replaceOne(coll, doc, fails) ==
    LET m == matching(coll, doc.Transaction_ID)
        j == CHOOSE i \in m : \A k \in m : i <= k
    IN  IF fails THEN [coll |-> coll, ok |-> FALSE]
        ELSE IF m = {} THEN [coll |-> Append(coll, doc), ok |-> TRUE]
        ELSE IF coll[j]._id # doc._id THEN [coll |-> coll, ok |-> FALSE]
        ELSE [coll |-> [coll EXCEPT ![j] = doc], ok |-> TRUE]

\* The upsert loop were it to stop at the first upsert that fails.
RECURSIVE upsertEachAbortOnFailure(_, _, _, _)
upsertEachAbortOnFailure(coll, docs, i, failing) ==
    IF i > Len(docs)
    THEN [coll |-> coll, insertedCount |-> 0, attempted |-> <<>>, upserted |-> <<>>]
    ELSE LET r == replaceOne(coll, docs[i], i \in failing)
             rest == IF r.ok THEN upsertEachAbortOnFailure(r.coll, docs, i + 1, failing)
                     ELSE [coll |-> r.coll, insertedCount |-> 0, attempted |-> <<>>,
                           upserted |-> <<>>]
         IN  [coll |-> rest.coll,
              insertedCount |-> rest.insertedCount + (IF r.ok THEN 1 ELSE 0),
              attempted |-> <<docs[i].Transaction_ID>> \o rest.attempted,
              upserted |-> <<r.ok>> \o rest.upserted]

\* for (const doc of docs) { try { await replaceOne(...); insertedCount++ } catch {} }
RECURSIVE upsertEach(_, _, _, _)
upsertEach(coll, docs, i, failing) ==
    IF i > Len(docs)
    THEN [coll |-> coll, insertedCount |-> 0, attempted |-> <<>>, upserted |-> <<>>]
    ELSE LET r == replaceOne(coll, docs[i], i \in failing)
             rest == upsertEach(r.coll, docs, i + 1, failing)
         IN  [coll |-> rest.coll,
              insertedCount |-> rest.insertedCount + (IF r.ok THEN 1 ELSE 0),
              attempted |-> <<docs[i].Transaction_ID>> \o rest.attempted,
              upserted |-> <<r.ok>> \o rest.upserted]

\* The write of one collection in saveTransactions: insertMany, and on a
\* duplicate-key error (code 11000) the per-record upsert.  fault is "insert"
\* when insertMany fails with another error, which saveTransactions rethrows.
writeDocs(coll, docs, unique, fault, failing) ==
    LET bulk == insertMany(coll, docs, unique)
        each == upsertEach(bulk.coll, docs, 1, failing)
    IN  IF docs = <<>>
        THEN [coll |-> coll, insertedCount |-> 0, thrown |-> FALSE, fellBack |-> FALSE,
              attempted |-> <<>>, upserted |-> <<>>]
        ELSE IF fault = "insert"
        THEN [coll |-> coll, insertedCount |-> 0, thrown |-> TRUE, fellBack |-> FALSE,
              attempted |-> <<>>, upserted |-> <<>>]
        ELSE IF bulk.errors = 0
        THEN [coll |-> bulk.coll, insertedCount |-> Len(docs), thrown |-> FALSE,
              fellBack |-> FALSE, attempted |-> <<>>, upserted |-> <<>>]
        ELSE [coll |-> each.coll, insertedCount |-> each.insertedCount, thrown |-> FALSE,
              fellBack |-> TRUE, attempted |-> each.attempted, upserted |-> each.upserted]

transactionDoc(pred, clock) ==
    [Transaction_ID |-> pred.Transaction_ID,
     ml_pred_prob |-> pred.ml_pred_prob,
     fraud_flag |-> pred.fraud_flag,
     risk_level |-> pred.risk_level,
     reason |-> pred.reason,
     created_at |-> clock,
     updated_at |-> clock]

alertDoc(pred, clock) ==
    [Transaction_ID |-> pred.Transaction_ID,
     risk_level |-> pred.risk_level,
     reason |-> pred.reason,
     created_at |-> clock,
     updated_at |-> clock]

alertFilterHighOnly(pred) == pred.risk_level = "HIGH"

\* pred.risk_level === 'HIGH' || pred.fraud_flag === 1
alertFilter(pred) == pred.risk_level = "HIGH" \/ pred.fraud_flag = 1

\* predictions.map(...).filter(doc => doc.Transaction_ID)
transactionDocs(predictions, clock) ==
    SelectSeq([i \in 1..Len(predictions) |-> transactionDoc(predictions[i], clock)],
              LAMBDA doc : Truthy(doc.Transaction_ID))

\* predictions.filter(...).map(...).filter(doc => doc.Transaction_ID)
alertDocs(predictions, clock) ==
    SelectSeq([i \in 1..Len(SelectSeq(predictions, alertFilter)) |->
                    alertDoc(SelectSeq(predictions, alertFilter)[i], clock)],
              LAMBDA doc : Truthy(doc.Transaction_ID))

idsOf(docs) == [i \in 1..Len(docs) |-> docs[i].Transaction_ID]

\* saveTransactions(predictions) on the store st = [transactions, alerts, nextId]:
\* the store it leaves and what it returns (or that it throws).
saveTransactions(st, predictions, clock, faults) ==
    LET tdocs == withIds(transactionDocs(predictions, clock), st.nextId)
        tw == writeDocs(st.transactions, tdocs, TransactionsUnique,
                        faults.transactions, faults.transactionUpserts)
        idsAfterT == IF tdocs = <<>> \/ faults.transactions = "insert"
                     THEN st.nextId ELSE st.nextId + Len(tdocs)
        adocs == withIds(alertDocs(predictions, clock), idsAfterT)
        aw == writeDocs(st.alerts, adocs, AlertsUnique, faults.alerts, faults.alertUpserts)
        idsAfterA == IF adocs = <<>> \/ faults.alerts = "insert"
                     THEN idsAfterT ELSE idsAfterT + Len(adocs)
        written(success, thrownBy, tx, al) ==
            [success |-> success,
             transactionsInserted |-> IF success THEN tx.insertedCount ELSE 0,
             alertsCreated |-> IF success THEN Len(adocs) ELSE 0,
             transactionIds |-> IF success THEN idsOf(tdocs) ELSE <<>>,
             thrownBy |-> thrownBy,
             transactionFallback |-> tx.fellBack,
             upsertsAttempted |-> tx.attempted,
             upsertsDone |-> tx.upserted,
             alertFallback |-> al.fellBack,
             alertUpsertsAttempted |-> al.attempted,
             alertUpsertsDone |-> al.upserted]
        notRun == [fellBack |-> FALSE, attempted |-> <<>>, upserted |-> <<>>]
    IN  IF tw.thrown
        THEN [transactions |-> st.transactions, alerts |-> st.alerts, nextId |-> idsAfterT,
              alertDocs |-> <<>>,
              result |-> written(FALSE, "transactions", notRun, notRun)]
        ELSE IF aw.thrown
        THEN [transactions |-> tw.coll, alerts |-> st.alerts, nextId |-> idsAfterA,
              alertDocs |-> adocs,
              result |-> written(FALSE, "alerts", tw, notRun)]
        ELSE [transactions |-> tw.coll, alerts |-> aw.coll, nextId |-> idsAfterA,
              alertDocs |-> adocs,
              result |-> written(TRUE, "none", tw, aw)]

----------------------------------------------------------------------------
(* Inputs of saveTransactions: predictions the scorer returns *)

\* The number of predictions handed to saveTransactions, over all calls.
MaxSaved == 4

NoonRetail(id, amount, category, rnd) ==
    predictRow(engineerRow(CleanedRecord(id, amount, category, 12,
                                         <<"A", "u", "s", "t", "i", "n">>, PayDebitCard)),
               rnd, ScoreEnv)

\* T1 scored LOW and HIGH, T2 scored MEDIUM (with the fraud flag set)
PredictionSamples ==
    {NoonRetail(T1, 5000, CatRetail, 0), NoonRetail(T1, 150000, CatATM, 0),
     NoonRetail(T2, 5000, CatGas, 3)}

NoFaults == [transactions |-> "none", alerts |-> "none",
             transactionUpserts |-> {}, alertUpserts |-> {}]

\* What may go wrong in one call on n predictions: nothing, an insertMany that
\* fails with an error other than a duplicate key, or the upsert of one record.
Faults(n) ==
    {NoFaults,
     [NoFaults EXCEPT !.transactions = "insert"],
     [NoFaults EXCEPT !.alerts = "insert"]}
    \cup {[NoFaults EXCEPT !.transactionUpserts = {k}] : k \in 1..n}

NoResult == [success |-> FALSE, transactionsInserted |-> 0, alertsCreated |-> 0,
             transactionIds |-> <<>>, thrownBy |-> "none",
             transactionFallback |-> FALSE, upsertsAttempted |-> <<>>, upsertsDone |-> <<>>,
             alertFallback |-> FALSE, alertUpsertsAttempted |-> <<>>,
             alertUpsertsDone |-> <<>>]

\* No GET /stats or PATCH /alerts/:id was answered since the last save.
NoQuery == [op |-> "none"]

StoreInit ==
    /\ transactions = <<>>
    /\ alerts = <<>>
    /\ nextId = 1
    /\ saveResult = NoResult
    /\ lastAlertDocs = <<>>
    /\ lastBatch = <<>>
    /\ saveCalls = 0
    /\ submitted = 0

Store == [transactions |-> transactions, alerts |-> alerts, nextId |-> nextId]

\* The state saveTransactions(predictions) leaves.
Saved(predictions, faults) ==
    \E out \in {saveTransactions(Store, predictions, saveCalls + 1, faults)} :
        /\ transactions' = out.transactions
        /\ alerts' = out.alerts
        /\ nextId' = out.nextId
        /\ saveResult' = out.result
        /\ lastAlertDocs' = out.alertDocs
        /\ lastBatch' = predictions
        /\ saveCalls' = saveCalls + 1
        /\ submitted' = submitted + Len(predictions)
        /\ lastQuery' = NoQuery

\* dbService.saveTransactions(predictions)
SaveTransactions ==
    /\ submitted < MaxSaved
    /\ \E predictions \in Batches(PredictionSamples, MaxSaved - submitted) :
       \E faults \in Faults(Len(predictions)) :
            /\ Len(predictions) > 0
            /\ Saved(predictions, faults)

----------------------------------------------------------------------------
(* DatabaseService queries: getTransactionStats and updateAlert *)

\* A quotient of two integers ($avg), kept exact.
Ratio(sum, count) == [num |-> sum, den |-> count]

ZeroNumber == Ratio(0, 1)

RECURSIVE sumOf(_, _)
sumOf(coll, field) ==
    IF coll = <<>> THEN 0 ELSE Head(coll)[field] + sumOf(Tail(coll), field)

countOf(coll, field, value) == Len(SelectSeq(coll, LAMBDA doc : doc[field] = value))

\* aggregate([{ $group: { _id: null, ... } }]).toArray() on transactions: one
\* group holding every document, and no group at all for an empty collection.
transactionGroups(coll) ==
    IF coll = <<>> THEN <<>>
    ELSE <<[_id |-> Null,
            totalTransactions |-> Len(coll),
            fraudulentTransactions |-> countOf(coll, "fraud_flag", 1),
            highRiskTransactions |-> countOf(coll, "risk_level", "HIGH"),
            mediumRiskTransactions |-> countOf(coll, "risk_level", "MEDIUM"),
            lowRiskTransactions |-> countOf(coll, "risk_level", "LOW"),
            avgFraudProbability |-> Ratio(sumOf(coll, "ml_pred_prob"), Len(coll))]>>

\* '$status' of a document: null when it has no status field.
statusOf(doc) == IF "status" \in DOMAIN doc THEN doc.status ELSE Null

\* aggregate([{ $group: { _id: '$status', count: { $sum: 1 } } }]) on alerts.
alertGroups(coll) ==
    {[_id |-> s, count |-> Cardinality({i \in 1..Len(coll) : statusOf(coll[i]) = s})] :
        s \in {statusOf(coll[i]) : i \in 1..Len(coll)}}

ZeroTransactionStats ==
    [totalTransactions |-> 0, fraudulentTransactions |-> 0, highRiskTransactions |-> 0,
     mediumRiskTransactions |-> 0, lowRiskTransactions |-> 0,
     avgFraudProbability |-> ZeroNumber]

ZeroAlertCounts == {<<"o", "p", "e", "n">>, <<"c", "l", "o", "s", "e", "d">>,
                    <<"i", "n", "v", "e", "s", "t", "i", "g", "a", "t", "i", "n", "g">>}

\* getTransactionStats(): stat._id.toLowerCase() throws a TypeError for a group
\* whose _id is not a string, and the method rethrows.
getTransactionStats(st) ==
    LET stats == transactionGroups(st.transactions)
        alertStats == alertGroups(st.alerts)
        keys == ZeroAlertCounts \cup {toLowerCase(g._id.s) : g \in alertStats}
    IN  IF \E g \in alertStats : g._id.t # "str"
        THEN [op |-> "stats", thrown |-> TRUE]
        ELSE [op |-> "stats", thrown |-> FALSE,
              transactions |-> IF stats # <<>> THEN stats[1] ELSE ZeroTransactionStats,
              alerts |-> [k \in keys |->
                            IF \E g \in alertStats : toLowerCase(g._id.s) = k
                            THEN (CHOOSE g \in alertStats : toLowerCase(g._id.s) = k).count
                            ELSE 0]]

\* The { _id: alertId } filter of updateOne: a stored ObjectId equals an
\* ObjectId with the same value, never a string.
idMatches(stored, alertId) == alertId.t = "oid" /\ alertId.n = stored

\* updateAlert(alertId, updates): updateOne({ _id: alertId }, { $set: {...updates,
\* updated_at} }); returns modifiedCount > 0.
updateAlert(coll, alertId, updates, clock) ==
    LET m == {i \in 1..Len(coll) : idMatches(coll[i]._id, alertId)}
        j == CHOOSE i \in m : \A k \in m : i <= k
        set == updates @@ [updated_at |-> clock]
    IN  IF m = {} THEN [coll |-> coll, modified |-> FALSE]
        ELSE [coll |-> [coll EXCEPT ![j] = set @@ coll[j]], modified |-> TRUE]

QueryIdle == lastQuery = NoQuery

\* app.get('/stats'): dbService.getTransactionStats()
GetTransactionStats ==
    /\ lastQuery' = getTransactionStats(Store)
    /\ UNCHANGED storeVars

\* The statuses a PATCH body may carry.
PatchStatuses == {Str(<<"o", "p", "e", "n">>), Str(<<"c", "l", "o", "s", "e", "d">>)}

\* app.patch('/alerts/:id'): req.params.id is the text of the identifier.
PatchAlert ==
    /\ \E i \in 1..Len(alerts) :
       \E status \in PatchStatuses :
       \E out \in {updateAlert(alerts, Str(natToString(alerts[i]._id)),
                               [status |-> status], saveCalls)} :
            /\ alerts' = out.coll
            /\ lastQuery' = [op |-> "patch", id |-> alerts[i]._id, status |-> status,
                             found |-> out.modified]
    /\ UNCHANGED <<transactions, saveResult, lastAlertDocs, lastBatch, saveCalls, submitted,
                   nextId>>

----------------------------------------------------------------------------
(* POST /process-csv: preprocessCSV, predict, savePredictionsToCSV,           *)
(* saveTransactions, and the response.                                        *)

\* getPreprocessingStats: the counts (the removal rate is removedRows over
\* originalRows)
getPreprocessingStats(originalData, cleaned) ==
    [originalRows |-> Len(originalData),
     cleanedRows |-> Len(cleaned),
     removedRows |-> Len(originalData) - Len(cleaned)]

\* writeCSV throws when there is nothing to write
writeCSVThrows(data) == Len(data) = 0

\* preprocessCSV: its result, or the error it throws.  fault is "read" or
\* "write" when reading the input or writing the output file fails.
preprocessCSV(rawRows, envs, fault) ==
    LET cleaned == cleanData(rawRows, envs)
        processedData == engineerFeatures(cleaned)
    IN  IF fault = "read"
        THEN [success |-> FALSE, error |-> "read error"]
        ELSE IF writeCSVThrows(processedData)
        THEN [success |-> FALSE, error |-> "No data to write"]
        ELSE IF fault = "write"
        THEN [success |-> FALSE, error |-> "write error"]
        ELSE [success |-> TRUE,
              originalRows |-> Len(rawRows),
              cleanedRows |-> Len(processedData),
              data |-> processedData,
              stats |-> getPreprocessingStats(rawRows, processedData)]

\* predictions.filter(p => p.fraud_flag === 1).length
fraudulentCount(predictions) == Len(SelectSeq(predictions, LAMBDA q : q.fraud_flag = 1))

\* The count of HIGH predictions were it taken from the fraud flag.
highRiskCountByFlag(predictions) == fraudulentCount(predictions)

\* predictions.filter(p => p.risk_level === 'HIGH').length
highRiskCount(predictions) == Len(SelectSeq(predictions, LAMBDA q : q.risk_level = "HIGH"))

failureResponse(details) ==
    [status |-> 500, success |-> FALSE, error |-> "Failed to process CSV", details |-> details,
     fallback |-> "Pipeline failed but system remains stable"]

\* The handler, from preprocessCSV to the response, on the store st:
\* [response, transactions, alerts, nextId, result, alertDocs, predictions, saved].
\* The faults handed to saveTransactions for one pipeline fault.
databaseFaults(fault) ==
    [NoFaults EXCEPT
        !.transactions = IF fault = "transactions" THEN "insert" ELSE "none",
        !.alerts = IF fault = "alerts" THEN "insert" ELSE "none"]

\* The response and the store the handler leaves, from the results of its three
\* steps: preprocessCSV, predict and saveTransactions.
processCsvOutcome(st, pre, predictions, db, fault) ==
    LET unsaved == [transactions |-> st.transactions, alerts |-> st.alerts,
                    nextId |-> st.nextId, result |-> NoResult, alertDocs |-> <<>>,
                    saved |-> FALSE]
    IN  IF ~pre.success
        THEN [response |-> failureResponse(pre.error), predictions |-> <<>>] @@ unsaved
        ELSE IF fault = "savecsv"
        THEN [response |-> failureResponse("csv error"), predictions |-> predictions] @@ unsaved
        ELSE IF ~db.result.success
        THEN [response |-> failureResponse("database error"), predictions |-> predictions,
              saved |-> TRUE] @@ db
        ELSE [response |->
                [status |-> 200, success |-> TRUE,
                 preprocessing |-> [originalRows |-> pre.originalRows,
                                    cleanedRows |-> pre.cleanedRows,
                                    stats |-> pre.stats],
                 predictions |->
                    [totalPredictions |-> Len(predictions),
                     fraudulentTransactions |-> fraudulentCount(predictions),
                     highRiskTransactions |-> highRiskCount(predictions)],
                 database |-> db.result,
                 results |-> predictions],
              predictions |-> predictions, saved |-> TRUE] @@ db

\* The predictions of a preprocessing result (none when it failed).
predictionsOf(pre, rnds, envs) ==
    IF pre.success THEN ruleBasedPrediction(pre.data, rnds, envs) ELSE <<>>

\* rows of an uploaded file
UploadRows ==
    {BaseRow,
     [BaseRow EXCEPT !.Transaction_ID = Str(T2), !.Amount = Str(<<"1", ",", "5", "0", "0">>),
                     !.Category = Str(<<"a", "t", "m">>),
                     !.Location = Str(<<"P", "a", "r", "i", "s">>)],
     [BaseRow EXCEPT !.Amount = Str(<<"7", "0">>), !.Timestamp = Str(<<"Z", "1", "2">>),
                     !.Category = Str(CatRetail),
                     !.Location = Str(<<"A", "u", "s", "t", "i", "n">>),
                     !.Payment_Method = Str(PayDebitCard)],
     [BaseRow EXCEPT !.Amount = Str(<<"a", "b", "c">>)],
     [BaseRow EXCEPT !.Transaction_ID = Str(T2), !.Amount = Str(<<"0">>)],
     [BaseRow EXCEPT !.Amount = Undef]}

UploadRandoms == {0, 20000}

PipelineFaults == {"none", "read", "write", "savecsv", "transactions", "alerts"}

NoResponse == [status |-> 0, success |-> FALSE]

\* The store before the request: empty, or holding what an earlier
\* saveTransactions call of one HIGH prediction for the first identifier left.
StoresBefore ==
    {[transactions |-> <<>>, alerts |-> <<>>, nextId |-> 1, saveCalls |-> 0]}
    \cup
    {[transactions |-> db.transactions, alerts |-> db.alerts, nextId |-> db.nextId,
      saveCalls |-> 1] :
        db \in {saveTransactions([transactions |-> <<>>, alerts |-> <<>>, nextId |-> 1],
                                 <<q>>, 1, NoFaults) :
                    q \in {NoonRetail(T1, 150000, CatATM, 0)}}}

PipeInit ==
    /\ pipeInput = NoRows
    /\ pipeResponse = NoResponse
    /\ pipePredictions = <<>>
    /\ pipeFault = "none"
    /\ pipePc = "idle"
    /\ \E st \in StoresBefore :
        /\ transactions = st.transactions
        /\ alerts = st.alerts
        /\ nextId = st.nextId
        /\ saveCalls = st.saveCalls
        /\ submitted = st.saveCalls
    /\ saveResult = NoResult
    /\ lastAlertDocs = <<>>
    /\ lastBatch = <<>>

\* app.post('/process-csv', ...) with a file uploaded
ProcessCsv ==
    /\ pipePc = "idle"
    /\ \E rawRows \in Batches(UploadRows, MaxRows) :
       \E env \in CallEnvs :
       \E rnds \in [1..Len(rawRows) -> UploadRandoms] :
       \E fault \in PipelineFaults :
       \E pre \in {preprocessCSV(rawRows, RowEnvs(env, Len(rawRows)), fault)} :
       \E predictions \in {predictionsOf(pre, rnds, RowEnvs(env, Len(rawRows)))} :
       \E db \in {saveTransactions(Store, predictions, saveCalls + 1,
                                   databaseFaults(fault))} :
       \E out \in {processCsvOutcome(Store, pre, predictions, db, fault)} :
              /\ pipeInput' = rawRows
              /\ pipeResponse' = out.response
              /\ pipePredictions' = out.predictions
              /\ pipeFault' = fault
              /\ transactions' = out.transactions
              /\ alerts' = out.alerts
              /\ nextId' = out.nextId
              /\ saveResult' = out.result
              /\ lastAlertDocs' = out.alertDocs
              /\ lastBatch' = IF out.saved THEN out.predictions ELSE lastBatch
              /\ saveCalls' = IF out.saved THEN saveCalls + 1 ELSE saveCalls
              /\ submitted' = IF out.saved THEN submitted + Len(out.predictions) ELSE submitted
    /\ pipePc' = "responded"

----------------------------------------------------------------------------
(* Backend: the Alert and Transaction models and the /api/alerts routes *)

AlertStatuses == {"open", "investigating", "resolved", "false_positive"}
AlertTypes ==
    {"fraud_detected", "high_risk", "unusual_pattern", "velocity_check", "blacklist_match"}
AlertSeverities == {"low", "medium", "high", "critical"}
ResolutionActions == {"approved", "declined", "blocked", "flagged"}

\* dateRange.start and dateRange.end are Date objects or left out.
inDateRange(at, dateRange) ==
    IF Truthy(dateRange.start) \/ Truthy(dateRange.end)
    THEN /\ (Truthy(dateRange.start) => at >= dateRange.start.n)
         /\ (Truthy(dateRange.end) => at <= dateRange.end.n)
    ELSE TRUE

ZeroAlertStats ==
    [totalAlerts |-> 0, openAlerts |-> 0, criticalAlerts |-> 0, highAlerts |-> 0,
     avgFraudProbability |-> ZeroNumber, totalAmount |-> 0]

\* getAlertStats were it to return stats[0] as it is.
getAlertStatsNoDefault(coll, dateRange) ==
    LET matched == SelectSeq(coll, LAMBDA doc : inDateRange(doc.createdAt, dateRange))
    IN  IF matched = <<>> THEN Undef
        ELSE [_id |-> Null,
              totalAlerts |-> Len(matched),
              openAlerts |-> countOf(matched, "status", "open"),
              criticalAlerts |-> countOf(matched, "severity", "critical"),
              highAlerts |-> countOf(matched, "severity", "high"),
              avgFraudProbability |->
                 Ratio(sumOf(matched, "fraudProbability"), Len(matched)),
              totalAmount |-> sumOf(matched, "amount")]

\* alertSchema.statics.getAlertStats(dateRange): $match, then one $group with
\* _id null; `stats[0] || { ...zeros }`.
getAlertStats(coll, dateRange) ==
    LET matched == SelectSeq(coll, LAMBDA doc : inDateRange(doc.createdAt, dateRange))
        stats == IF matched = <<>> THEN <<>>
                 ELSE <<[_id |-> Null,
                         totalAlerts |-> Len(matched),
                         openAlerts |-> countOf(matched, "status", "open"),
                         criticalAlerts |-> countOf(matched, "severity", "critical"),
                         highAlerts |-> countOf(matched, "severity", "high"),
                         avgFraudProbability |->
                            Ratio(sumOf(matched, "fraudProbability"), Len(matched)),
                         totalAmount |-> sumOf(matched, "amount")]>>
    IN  IF stats # <<>> THEN stats[1] ELSE ZeroAlertStats

ZeroFraudStats ==
    [totalTransactions |-> 0, totalAmount |-> 0, suspiciousCount |-> 0,
     suspiciousAmount |-> 0, fraudCount |-> 0, avgFraudProbability |-> ZeroNumber]

\* transactionSchema.statics.getFraudStats(dateRange)
getFraudStats(coll, dateRange) ==
    LET matched == SelectSeq(coll, LAMBDA doc : inDateRange(doc.timestamp, dateRange))
        suspicious == SelectSeq(matched, LAMBDA doc : doc.status # "safe")
        stats == IF matched = <<>> THEN <<>>
                 ELSE <<[_id |-> Null,
                         totalTransactions |-> Len(matched),
                         totalAmount |-> sumOf(matched, "amount"),
                         suspiciousCount |-> Len(suspicious),
                         suspiciousAmount |-> sumOf(suspicious, "amount"),
                         fraudCount |-> countOf(matched, "status", "fraud"),
                         avgFraudProbability |->
                            Ratio(sumOf(matched, "probability"), Len(matched))]>>
    IN  IF stats # <<>> THEN stats[1] ELSE ZeroFraudStats

\* Alert.create({...}): the schema checks the enums and sets status to its
\* default, 'open'; the route passes no status.
createAlert(coll, transaction, body, id, now) ==
    IF body.type \notin AlertTypes \/ body.severity \notin AlertSeverities
    THEN [coll |-> coll, status |-> 500]
    ELSE [coll |-> Append(coll, [_id |-> id,
                                 transactionId |-> body.transactionId,
                                 type |-> body.type,
                                 severity |-> body.severity,
                                 status |-> "open",
                                 fraudProbability |-> transaction.probability,
                                 amount |-> transaction.amount,
                                 resolution |-> "none",
                                 assignedTo |-> "none",
                                 createdAt |-> now]),
          status |-> 201]

findById(coll, id) == {i \in 1..Len(coll) : coll[i]._id = id}

\* router.put('/:id/status')
putStatus(coll, id, status) ==
    IF status \notin {"open", "investigating", "resolved", "false_positive"}
    THEN [coll |-> coll, status |-> 400]
    ELSE IF findById(coll, id) = {}
    THEN [coll |-> coll, status |-> 404]
    ELSE [coll |-> [i \in 1..Len(coll) |->
                        IF coll[i]._id = id THEN [coll[i] EXCEPT !.status = status]
                        ELSE coll[i]],
          status |-> 200]

\* router.put('/:id/resolve')
putResolve(coll, id, action) ==
    IF action \notin ResolutionActions
    THEN [coll |-> coll, status |-> 400]
    ELSE IF findById(coll, id) = {}
    THEN [coll |-> coll, status |-> 404]
    ELSE [coll |-> [i \in 1..Len(coll) |->
                        IF coll[i]._id = id
                        THEN [coll[i] EXCEPT !.status = "resolved", !.resolution = action]
                        ELSE coll[i]],
          status |-> 200]

\* Alert.updateMany({ _id: { $in: alertIds } }, updateData): the fields of
\* updateData are set as given; updateMany runs no schema validators.
updateMany(coll, alertIds, updateData) ==
    [i \in 1..Len(coll) |->
        IF coll[i]._id \in alertIds
        THEN [f \in DOMAIN coll[i] |->
                IF f \in DOMAIN updateData THEN updateData[f] ELSE coll[i][f]]
        ELSE coll[i]]

\* router.put('/bulk')
putBulk(coll, alertIds, action, data) ==
    LET updateData ==
            CASE action = "assign" -> [assignedTo |-> data.assignedTo]
              [] action = "status" -> [status |-> data.status]
              [] action = "resolve" -> [status |-> "resolved", resolution |-> data.action]
              [] OTHER -> <<>>
        after == updateMany(coll, alertIds, updateData)
    IN  IF alertIds = {}
        THEN [coll |-> coll, status |-> 400]
        ELSE IF action \notin {"assign", "status", "resolve"}
        THEN [coll |-> coll, status |-> 400]
        ELSE [coll |-> after, status |-> 200,
              matchedCount |-> Cardinality({i \in 1..Len(coll) : coll[i]._id \in alertIds}),
              modifiedCount |-> Cardinality({i \in 1..Len(coll) : after[i] # coll[i]})]

----------------------------------------------------------------------------
(* Backend requests *)

\* The number of requests the backend answers.
MaxRequests == 3

\* The number of alerts created.
MaxAlerts == 2

\* The Transaction collection: empty, or seeded.
SeedTransactions ==
    <<[transactionId |-> "TX1", amount |-> 120, status |-> "fraud", probability |-> 90,
       timestamp |-> 1],
      [transactionId |-> "TX2", amount |-> 40, status |-> "safe", probability |-> 10,
       timestamp |-> 2]>>

AlertBodies ==
    [transactionId : {"TX1", "TX9"}, type : {"fraud_detected", "bogus"},
     severity : {"high", "critical"}]

\* Statuses a request may carry: two of the enumeration and one outside it.
RequestStatuses == {"investigating", "false_positive", "closed"}

RequestResolutions == {"approved", "bogus"}

BulkData == [status : RequestStatuses, action : RequestResolutions, assignedTo : {"U1"}]

DateRanges ==
    {[start |-> Undef, end |-> Undef],
     [start |-> Num(1), end |-> Num(2)],
     [start |-> Num(MaxRequests + 2), end |-> Num(MaxRequests + 3)],
     [start |-> Undef, end |-> Num(1)]}

NoBackendResponse == [op |-> "none", status |-> 0]

BackendIdle ==
    /\ bTransactions = <<>> /\ bAlerts = <<>> /\ bResponse = NoBackendResponse
    /\ bClock = 0

BackendInit ==
    /\ bTransactions \in {<<>>, SeedTransactions}
    /\ bAlerts = <<>>
    /\ bResponse = NoBackendResponse
    /\ bClock = 1

alertIdsIn(coll) == {coll[i]._id : i \in 1..Len(coll)}

\* An identifier of no alert.
MissingAlertId == 99

\* POST /api/alerts
PostAlert ==
    /\ bClock <= MaxRequests
    /\ Len(bAlerts) < MaxAlerts
    /\ \E body \in AlertBodies :
        LET found == SelectSeq(bTransactions,
                               LAMBDA tx : tx.transactionId = body.transactionId)
        IN  IF found = <<>>
            THEN /\ bAlerts' = bAlerts
                 /\ bResponse' = [op |-> "create", status |-> 404]
            ELSE \E out \in {createAlert(bAlerts, found[1], body, Len(bAlerts) + 1, bClock)} :
                    /\ bAlerts' = out.coll
                    /\ bResponse' = [op |-> "create", status |-> out.status]
    /\ bClock' = bClock + 1
    /\ UNCHANGED bTransactions

\* PUT /api/alerts/:id/status
PutStatus ==
    /\ bClock <= MaxRequests
    /\ \E id \in alertIdsIn(bAlerts) \cup {MissingAlertId} :
       \E status \in RequestStatuses :
       \E out \in {putStatus(bAlerts, id, status)} :
            /\ bAlerts' = out.coll
            /\ bResponse' = [op |-> "status", status |-> out.status]
    /\ bClock' = bClock + 1
    /\ UNCHANGED bTransactions

\* PUT /api/alerts/:id/resolve
PutResolve ==
    /\ bClock <= MaxRequests
    /\ \E id \in alertIdsIn(bAlerts) \cup {MissingAlertId} :
       \E action \in RequestResolutions :
       \E out \in {putResolve(bAlerts, id, action)} :
            /\ bAlerts' = out.coll
            /\ bResponse' = [op |-> "resolve", status |-> out.status]
    /\ bClock' = bClock + 1
    /\ UNCHANGED bTransactions

\* PUT /api/alerts/bulk
PutBulk ==
    /\ bClock <= MaxRequests
    /\ \E alertIds \in SUBSET alertIdsIn(bAlerts) :
       \E action \in {"assign", "status", "resolve", "bogus"} :
       \E data \in BulkData :
       \E out \in {putBulk(bAlerts, alertIds, action, data)} :
            /\ bAlerts' = out.coll
            /\ bResponse' = [op |-> "bulk", status |-> out.status]
    /\ bClock' = bClock + 1
    /\ UNCHANGED bTransactions

\* Alert.getAlertStats(dateRange)
GetAlertStats ==
    /\ bClock <= MaxRequests
    /\ \E dateRange \in DateRanges :
          bResponse' = [op |-> "alertStats", status |-> 200, dateRange |-> dateRange,
                        data |-> getAlertStats(bAlerts, dateRange)]
    /\ bClock' = bClock + 1
    /\ UNCHANGED <<bTransactions, bAlerts>>

\* Transaction.getFraudStats(dateRange)
GetFraudStats ==
    /\ bClock <= MaxRequests
    /\ \E dateRange \in DateRanges :
          bResponse' = [op |-> "fraudStats", status |-> 200, dateRange |-> dateRange,
                        data |-> getFraudStats(bTransactions, dateRange)]
    /\ bClock' = bClock + 1
    /\ UNCHANGED <<bTransactions, bAlerts>>

----------------------------------------------------------------------------
(* Backend: the router of /api/alerts.  A path is the sequence of its        *)
(* segments after /api/alerts; the clock of the backend counts days.         *)

\* The routes in the order the router registers them.
AlertRoutes ==
    <<[method |-> "GET", path |-> <<>>, handler |-> "listAlerts"],
      [method |-> "GET", path |-> <<":id">>, handler |-> "getAlert"],
      [method |-> "POST", path |-> <<>>, handler |-> "createAlert"],
      [method |-> "PUT", path |-> <<":id", "status">>, handler |-> "putStatus"],
      [method |-> "PUT", path |-> <<":id", "assign">>, handler |-> "putAssign"],
      [method |-> "PUT", path |-> <<":id", "resolve">>, handler |-> "putResolve"],
      [method |-> "GET", path |-> <<"stats">>, handler |-> "getAlertStats"],
      [method |-> "PUT", path |-> <<"bulk">>, handler |-> "putBulk"]>>

\* A route path matches a request path of the same length whose segments equal
\* its own, a parameter (':id') matching any segment.
pathMatches(pattern, path) ==
    /\ Len(pattern) = Len(path)
    /\ \A k \in 1..Len(pattern) : pattern[k] = ":id" \/ pattern[k] = path[k]

\* The handler express runs: that of the first registered route that matches,
\* "none" when no route does.
dispatch(method, path) ==
    LET m == {k \in 1..Len(AlertRoutes) :
                AlertRoutes[k].method = method
                /\ pathMatches(AlertRoutes[k].path, path)}
    IN  IF m = {} THEN "none"
        ELSE AlertRoutes[CHOOSE k \in m : \A j \in m : k <= j].handler

\* The segments that name alerts stand for the 24 hexadecimal digits of an
\* ObjectId; findById casts its argument, and the cast fails for other text.
ObjectIdTexts == <<"id1", "id2", "id3">>

castObjectId(segment) ==
    IF \E id \in DOMAIN ObjectIdTexts : ObjectIdTexts[id] = segment
    THEN CHOOSE id \in DOMAIN ObjectIdTexts : ObjectIdTexts[id] = segment
    ELSE 0

periodDays(period) ==
    CASE period = "7d" -> 7
      [] period = "30d" -> 30
      [] period = "90d" -> 90
      [] OTHER -> 30

\* router.get('/:id'): findById throws a CastError for an id that is no
\* ObjectId, which the handler passes to next.
getAlertResponse(coll, segment) ==
    LET id == castObjectId(segment)
    IN  IF id = 0 THEN [status |-> 0, passedToNext |-> TRUE, data |-> <<>>]
        ELSE IF findById(coll, id) = {}
        THEN [status |-> 404, passedToNext |-> FALSE, data |-> <<>>]
        ELSE [status |-> 200, passedToNext |-> FALSE,
              data |-> <<coll[CHOOSE i \in findById(coll, id) : TRUE]>>]

\* router.get('/stats'): the statistics of the period, with overdueAlerts and
\* period.
alertStatsResponse(coll, period, now) ==
    LET stats == getAlertStats(coll, [start |-> Num(now - periodDays(period)),
                                      end |-> Num(now)])
        overdueAlerts ==
            Len(SelectSeq(coll, LAMBDA doc : /\ doc.status \in {"open", "investigating"}
                                              /\ doc.createdAt < now - 1))
    IN  [status |-> 200, passedToNext |-> FALSE,
         data |-> <<stats @@ [overdueAlerts |-> overdueAlerts, period |-> period]>>]

\* router.get('/') with no filter, on a store within one page
listAlertsResponse(coll) == [status |-> 200, passedToNext |-> FALSE, data |-> coll]

RequestPaths == {<<>>, <<"stats">>, <<"id1">>, <<"id2">>, <<"id1", "status">>}
RequestPeriods == {"7d", "30d", "1y"}

\* A GET request to /api/alerts/...
GetAlerts ==
    /\ bClock <= MaxRequests
    /\ \E path \in RequestPaths, period \in RequestPeriods :
       \E handler \in {dispatch("GET", path)} :
       \E response \in {CASE handler = "listAlerts" -> listAlertsResponse(bAlerts)
                          [] handler = "getAlert" -> getAlertResponse(bAlerts, path[1])
                          [] handler = "getAlertStats" ->
                                alertStatsResponse(bAlerts, period, bClock)
                          [] OTHER -> [status |-> 404, passedToNext |-> FALSE,
                                       data |-> <<>>]} :
          bResponse' = [op |-> "get", path |-> path, period |-> period,
                        handler |-> handler] @@ response
    /\ bClock' = bClock + 1
    /\ UNCHANGED <<bTransactions, bAlerts>>

----------------------------------------------------------------------------
(* Backend: the ApiKey model, the /api/api-keys routes and apiKeyAuth.       *)
(* The clock counts years; a key expires one year after its creation.        *)

\* usage.monthlyLimit of the schema
MonthlyLimit == 10000

MaxKeys == 1
MaxRotations == 1
MaxAuthRequests == 2
MaxClock == 2

\* `fs_${uuidv4().replace(/-/g, '')}`: uuid stands for the 32 hexadecimal digits.
defaultKeyId(uuid) == <<"f", "s", "_">> \o uuid

\* `fs_${Date.now()}_${Math.random().toString(36).substr(2, 32)}`
newKeyValue(now, rnd) == <<"f", "s", "_">> \o natToString(now) \o <<"_">> \o rnd

\* bcrypt.hash(keyValue, salt): only the value hashed can be told from it, by
\* comparing.
bcryptHash(keyValue) == [hashOf |-> keyValue]

\* ApiKey.create({ name, hashedKey, owner, permissions, restrictions }) with the
\* defaults of the schema.
newApiKey(uuid, hashedKey, ipWhitelist, now) ==
    [keyId |-> defaultKeyId(uuid),
     hashedKey |-> hashedKey,
     usage |-> [totalRequests |-> 0, monthlyRequests |-> 0, monthlyLimit |-> MonthlyLimit],
     ipWhitelist |-> ipWhitelist,
     isActive |-> TRUE,
     expiresAt |-> now + 1,
     lastRotated |-> now]

\* apiKeySchema.methods.isExpired
isExpired(keyRecord, now) == keyRecord.expiresAt < now

\* apiKeySchema.methods.checkRateLimit
checkRateLimit(keyRecord) == keyRecord.usage.monthlyRequests < keyRecord.usage.monthlyLimit

\* ApiKey.findOne({ keyId }): the index of the document, 0 when there is none.
findOneByKeyId(coll, keyId) ==
    IF \E i \in 1..Len(coll) : coll[i].keyId = keyId
    THEN CHOOSE i \in 1..Len(coll) :
            coll[i].keyId = keyId /\ \A j \in 1..Len(coll) : coll[j].keyId = keyId => i <= j
    ELSE 0

\* The usage of the in-memory document after incrementUsage changed it.
incrementedUsage(usage) ==
    [usage EXCEPT !.totalRequests = @ + 1, !.monthlyRequests = @ + 1]

\* apiKeyAuth up to `await this.save()`: the status it answers with, or 0 when
\* it sends no response and goes on to save the document it loaded.
authStatus(coll, apiKey, ip, now) ==
    LET i == findOneByKeyId(coll, apiKey)
    IN  IF apiKey = <<>> THEN 401
        ELSE IF i = 0 THEN 401
        ELSE IF ~coll[i].isActive THEN 401
        ELSE IF isExpired(coll[i], now) THEN 401
        ELSE IF ~checkRateLimit(coll[i]) THEN 429
        ELSE IF coll[i].ipWhitelist # {} /\ ip \notin coll[i].ipWhitelist THEN 403
        ELSE 0

\* this.save() of incrementUsage: the update sets the paths the request
\* modified, usage.totalRequests and usage.monthlyRequests, to the values of its
\* in-memory document.
saveUsage(coll, i, usage) ==
    [coll EXCEPT ![i].usage.totalRequests = usage.totalRequests,
                 ![i].usage.monthlyRequests = usage.monthlyRequests]

\* ApiKey.updateMany({}, { 'usage.monthlyRequests': 0 })
resetMonthlyUsage(coll) == [i \in 1..Len(coll) |-> [coll[i] EXCEPT !.usage.monthlyRequests = 0]]

----------------------------------------------------------------------------
(* Inputs of the API-key routes and of apiKeyAuth *)

KeyUuids == {<<"a", "1">>, <<"b", "2">>}
KeyRandoms == {<<"x">>, <<"y">>}
ClientIps == {"10.0.0.1", "10.0.0.2"}
IpWhitelists == {{}, {"10.0.0.1"}}

\* A key value nobody was issued.
UnknownKey == <<"f", "s", "_", "0">>

NoUsage == [totalRequests |-> 0, monthlyRequests |-> 0, monthlyLimit |-> 0]

IdleRequest ==
    [pc |-> "idle", presented |-> <<>>, ip |-> "", key |-> 0, usage |-> NoUsage,
     status |-> 0, admitted |-> FALSE, at |-> 0]

\* What a client may send as its API key: nothing, an unknown value, the keyId
\* or the key of a response it was given.
PresentedKeys ==
    {<<>>, UnknownKey} \cup {kIssued[n].keyId : n \in 1..Len(kIssued)}
                       \cup {kIssued[n].key : n \in 1..Len(kIssued)}

KeysIdle ==
    /\ kKeys = <<>>
    /\ kIssued = <<>>
    /\ kReqs = [r \in 1..MaxAuthRequests |-> IdleRequest]
    /\ kAdmitted = <<>>
    /\ kNow = 0

\* router.post('/') of /api/api-keys with a name
CreateKey ==
    /\ Len(kKeys) < MaxKeys
    /\ \E uuid \in KeyUuids, rnd \in KeyRandoms, ipWhitelist \in IpWhitelists :
        /\ findOneByKeyId(kKeys, defaultKeyId(uuid)) = 0
        /\ \E keyValue \in {newKeyValue(kNow, rnd)} :
           \E apiKey \in {newApiKey(uuid, bcryptHash(keyValue), ipWhitelist, kNow)} :
              /\ kKeys' = Append(kKeys, apiKey)
              /\ kIssued' = Append(kIssued, [keyId |-> apiKey.keyId, key |-> keyValue,
                                             by |-> "create"])
    /\ kAdmitted' = Append(kAdmitted, 0)
    /\ UNCHANGED <<kReqs, kNow>>

\* router.post('/:keyId/rotate')
RotateKey ==
    /\ Cardinality({n \in 1..Len(kIssued) : kIssued[n].by = "rotate"}) < MaxRotations
    /\ \E i \in 1..Len(kKeys), rnd \in KeyRandoms :
       \E keyValue \in {newKeyValue(kNow, rnd)} :
          /\ \A n \in 1..Len(kIssued) : kIssued[n].key # keyValue
          /\ kKeys' = [kKeys EXCEPT ![i].hashedKey = bcryptHash(keyValue),
                                    ![i].lastRotated = kNow]
          /\ kIssued' = Append(kIssued, [keyId |-> kKeys[i].keyId, key |-> keyValue,
                                         by |-> "rotate"])
    /\ UNCHANGED <<kReqs, kAdmitted, kNow>>

\* router.delete('/:keyId')
DeactivateKey ==
    /\ \E i \in 1..Len(kKeys) :
          /\ kKeys[i].isActive
          /\ kKeys' = [kKeys EXCEPT ![i].isActive = FALSE]
    /\ UNCHANGED <<kIssued, kReqs, kAdmitted, kNow>>

\* A year passes.
Tick ==
    /\ kNow < MaxClock
    /\ kNow' = kNow + 1
    /\ UNCHANGED <<kKeys, kIssued, kReqs, kAdmitted>>

\* apiKeyAuth from the request to the response it sends, or to the await of
\* incrementUsage's save.
AuthFind ==
    /\ \E r \in 1..MaxAuthRequests, apiKey \in PresentedKeys, ip \in ClientIps :
        /\ kReqs[r].pc = "idle"
        /\ \A q \in 1..(r - 1) : kReqs[q].pc # "idle"
        /\ \E status \in {authStatus(kKeys, apiKey, ip, kNow)} :
           \E i \in {findOneByKeyId(kKeys, apiKey)} :
              kReqs' = [kReqs EXCEPT ![r] =
                          [pc |-> IF status = 0 THEN "saving" ELSE "done",
                           presented |-> apiKey,
                           ip |-> ip,
                           key |-> i,
                           usage |-> IF status = 0 THEN incrementedUsage(kKeys[i].usage)
                                     ELSE NoUsage,
                           status |-> status,
                           admitted |-> FALSE,
                           at |-> Len(kIssued)]]
    /\ UNCHANGED <<kKeys, kIssued, kAdmitted, kNow>>

\* apiKeyAuth from the completion of the save to next()
AuthSave ==
    /\ \E r \in 1..MaxAuthRequests :
        /\ kReqs[r].pc = "saving"
        /\ kKeys' = saveUsage(kKeys, kReqs[r].key, kReqs[r].usage)
        /\ kReqs' = [kReqs EXCEPT ![r].pc = "done", ![r].admitted = TRUE]
        /\ kAdmitted' = [kAdmitted EXCEPT ![kReqs[r].key] = @ + 1]
    /\ UNCHANGED <<kIssued, kNow>>

\* ApiKey.resetMonthlyUsage(), the monthly job
ResetMonthlyUsage ==
    /\ kKeys' = resetMonthlyUsage(kKeys)
    /\ kAdmitted' = [i \in 1..Len(kAdmitted) |-> 0]
    /\ UNCHANGED <<kIssued, kReqs, kNow>>

\* A key created earlier, and the requests it admitted this month.
UsageBefore == {0, MonthlyLimit - 1}

AuthInit ==
    /\ \E used \in UsageBefore :
        /\ kKeys = <<[newApiKey(<<"a", "1">>, bcryptHash(newKeyValue(0, <<"x">>)), {}, 0)
                        EXCEPT !.usage.totalRequests = used,
                               !.usage.monthlyRequests = used]>>
        /\ kAdmitted = <<used>>
    /\ kIssued = <<[keyId |-> defaultKeyId(<<"a", "1">>), key |-> newKeyValue(0, <<"x">>),
                    by |-> "create"]>>
    /\ kReqs = [r \in 1..MaxAuthRequests |-> IdleRequest]
    /\ kNow = 0

----------------------------------------------------------------------------
(* Backend: POST /api/transactions and POST /api/upload/save on the          *)
(* Transaction model.  A request gives way to the others at each await.      *)

MaxTxRequests == 2
MaxBatch == 2

\* Transaction.findOne({ transactionId })
existingTransaction(coll, transactionId) ==
    \E k \in 1..Len(coll) : coll[k].transactionId = transactionId

\* Transaction.create(record): refused by the validators of the schema, or by
\* the unique index on transactionId (E11000); else the document is inserted.
\* The document remembers the request and the record it was made from.
createTransaction(coll, record, r, i) ==
    IF ~record.valid THEN [coll |-> coll, thrown |-> TRUE]
    ELSE IF existingTransaction(coll, record.transactionId)
    THEN [coll |-> coll, thrown |-> TRUE]
    ELSE [coll |-> Append(coll, [transactionId |-> record.transactionId,
                                 by |-> r, index |-> i]),
          thrown |-> FALSE]

\* The loop of /save after record i was dealt with: the next record, or the
\* response when there is none.
nextRecord(p) ==
    IF p.i = Len(p.data) THEN [p EXCEPT !.pc = "done", !.status = 200]
    ELSE [p EXCEPT !.pc = "find", !.i = p.i + 1]

\* errors.push(...) and on to the next record
recordError(p) == nextRecord([p EXCEPT !.errors = @ + 1])

\* savedTransactions.push(transaction) and on to the next record
recordSaved(p) == nextRecord([p EXCEPT !.saved = @ + 1])

\* next(error): the handler is left at once.
passedToNext(p) == [p EXCEPT !.pc = "done", !.status = 500]

----------------------------------------------------------------------------
(* Inputs of the transaction routes *)

TransactionIds == {"A", "B"}

\* An element of the data array of /save: an object, or the JSON null.
NullRecord == [t |-> "null", transactionId |-> "", valid |-> FALSE]

ObjectRecords == [t : {"object"}, transactionId : TransactionIds, valid : BOOLEAN]

IdleTxRequest ==
    [pc |-> "idle", kind |-> "none", data |-> <<>>, i |-> 0, saved |-> 0, errors |-> 0,
     status |-> 0]

TxIdle ==
    /\ tStore = <<>>
    /\ tReqs = [r \in 1..MaxTxRequests |-> IdleTxRequest]

\* router.post('/') of /api/transactions, admitted by apiKeyAuth, up to the
\* await of findOne
PostTransaction ==
    /\ \E r \in 1..MaxTxRequests, body \in ObjectRecords :
        /\ tReqs[r].pc = "idle"
        /\ \A q \in 1..(r - 1) : tReqs[q].pc # "idle"
        /\ tReqs' = [tReqs EXCEPT ![r] =
                        [IdleTxRequest EXCEPT !.pc = "find", !.kind = "post",
                                              !.data = <<body>>, !.i = 1]]
    /\ UNCHANGED tStore

\* router.post('/save') up to the await of the first findOne, or to the 400
\* that answers an empty data array
PostSave ==
    /\ \E r \in 1..MaxTxRequests,
          data \in Batches(ObjectRecords \cup {NullRecord}, MaxBatch) :
        /\ tReqs[r].pc = "idle"
        /\ \A q \in 1..(r - 1) : tReqs[q].pc # "idle"
        /\ tReqs' = [tReqs EXCEPT ![r] =
                        IF Len(data) = 0
                        THEN [IdleTxRequest EXCEPT !.pc = "done", !.kind = "save",
                                                   !.status = 400]
                        ELSE [IdleTxRequest EXCEPT !.pc = "find", !.kind = "save",
                                                   !.data = data, !.i = 1]]
    /\ UNCHANGED tStore

\* The step that ends with the findOne of the current record.  In /save,
\* record.transactionId of a null record throws inside the try, and so does
\* data[i].transactionId in its catch: the error leaves the loop for next(error).
FindExisting ==
    /\ \E r \in 1..MaxTxRequests :
        /\ tReqs[r].pc = "find"
        /\ \E p \in {tReqs[r]} :
           \E record \in {p.data[p.i]} :
              tReqs' = [tReqs EXCEPT ![r] =
                          IF record.t = "null" THEN passedToNext(p)
                          ELSE IF existingTransaction(tStore, record.transactionId)
                          THEN IF p.kind = "post"
                               THEN [p EXCEPT !.pc = "done", !.status = 400]
                               ELSE recordError(p)
                          ELSE [p EXCEPT !.pc = "create"]]
    /\ UNCHANGED tStore

\* The step that ends with Transaction.create of the current record.
CreateTransaction ==
    /\ \E r \in 1..MaxTxRequests :
        /\ tReqs[r].pc = "create"
        /\ \E p \in {tReqs[r]} :
           \E out \in {createTransaction(tStore, p.data[p.i], r, p.i)} :
              /\ tStore' = out.coll
              /\ tReqs' = [tReqs EXCEPT ![r] =
                              IF p.kind = "post"
                              THEN IF out.thrown THEN passedToNext(p)
                                   ELSE [p EXCEPT !.pc = "done", !.status = 201]
                              ELSE IF out.thrown THEN recordError(p)
                                   ELSE recordSaved(p)]

----------------------------------------------------------------------------
(* The upload handlers: POST /api/upload of the backend and POST             *)
(* /process-csv of the ML service, and the files of their uploads            *)
(* directories.  unlinkSync is taken to succeed on a file that exists.       *)

\* The number of upload requests, spread over the two services.
MaxUploads == 2

\* The number of values Date.now() (with Math.random() in the backend) takes
\* while the requests arrive; two requests may draw the same one.
MaxSuffix == 2

NoFile == [originalname |-> "", mimetype |-> ""]

\* The files clients send.
UploadedFiles ==
    {[originalname |-> "data.csv", mimetype |-> "text/csv"],
     [originalname |-> "DATA.CSV", mimetype |-> "application/octet-stream"],
     [originalname |-> "data.json", mimetype |-> "application/json"],
     [originalname |-> "notes.txt", mimetype |-> "text/csv"],
     [originalname |-> "notes.txt", mimetype |-> "text/plain"]}

\* path.extname(originalname)
extname(originalname) ==
    CASE originalname = "data.csv" -> ".csv"
      [] originalname = "DATA.CSV" -> ".CSV"
      [] originalname = "data.json" -> ".json"
      [] originalname = "notes.txt" -> ".txt"
      [] OTHER -> ""

\* String.prototype.toLowerCase on an extension
extToLowerCase(ext) == IF ext = ".CSV" THEN ".csv" ELSE ext

NoPath == [dir |-> "none", prefix |-> "", suffix |-> 0, name |-> ""]

\* multer of the backend: only .csv and .json pass the fileFilter; the file is
\* stored as 'file-<Date.now()>-<random><ext>'.
backendFileFilter(file) == extToLowerCase(extname(file.originalname)) \in {".csv", ".json"}

backendFilename(file, suffix) ==
    [dir |-> "backend/uploads", prefix |-> "file-", suffix |-> suffix,
     name |-> extname(file.originalname)]

\* multer of the ML service: a file passes with the mimetype text/csv or a
\* name ending in '.csv'; it is stored as '<Date.now()>-<originalname>'.
mlFileFilter(file) == file.mimetype = "text/csv" \/ extname(file.originalname) = ".csv"

mlFilename(file, suffix) ==
    [dir |-> "ml/uploads", prefix |-> "", suffix |-> suffix, name |-> file.originalname]

\* path.join(uploadsDir, `cleaned-${req.file.filename}`)
cleanedPath(inputPath) == [inputPath EXCEPT !.prefix = "cleaned-"]

\* if (fs.existsSync(p)) fs.unlinkSync(p)
unlinkIfExists(files, p) == files \ {p}

\* The finally of the ML service were it to delete the uploaded file alone.
cleanUpInputOnly(files, inputPath, outputPath) ==
    IF inputPath # NoPath THEN unlinkIfExists(files, inputPath) ELSE files

\* The finally of POST /process-csv: both paths, each when set and existing.
cleanUpFiles(files, inputPath, outputPath) ==
    LET afterInput == IF inputPath # NoPath THEN unlinkIfExists(files, inputPath)
                      ELSE files
    IN  IF outputPath # NoPath THEN unlinkIfExists(afterInput, outputPath)
        ELSE afterInput

IdleUpload == [pc |-> "idle", file |-> NoFile, path |-> NoPath, status |-> 0,
               passedToNext |-> FALSE]
OffUpload == [IdleUpload EXCEPT !.pc = "off"]

IdleProcessCsv == [pc |-> "idle", file |-> NoFile, inputPath |-> NoPath,
                   outputPath |-> NoPath, status |-> 0, passedToNext |-> FALSE]
OffProcessCsv == [IdleProcessCsv EXCEPT !.pc = "off"]

UploadIdle ==
    /\ fsFiles = {}
    /\ upReqs = [i \in 1..MaxUploads |-> OffUpload]
    /\ mlReqs = [i \in 1..MaxUploads |-> OffProcessCsv]

\* Both uploads directories empty, and each request addressed to one of the
\* two services.
UploadInit ==
    /\ fsFiles = {}
    /\ \E n \in 0..MaxUploads :
        /\ upReqs = [i \in 1..MaxUploads |-> IF i <= n THEN IdleUpload ELSE OffUpload]
        /\ mlReqs = [i \in 1..MaxUploads |->
                        IF i <= MaxUploads - n THEN IdleProcessCsv ELSE OffProcessCsv]

\* The request once it is answered.
answered(req, status, passedOn) ==
    [req EXCEPT !.pc = "done", !.status = status, !.passedToNext = passedOn]

\* Backend, upload.single('file'): no file part, a file the filter refuses
\* (the error goes to next, nothing is stored), or a file stored on disk.
UploadSingle(i) ==
    /\ upReqs[i].pc = "idle"
    /\ i > 1 => upReqs[i - 1].pc # "idle"
    /\ \E file \in UploadedFiles \cup {NoFile}, suffix \in 1..MaxSuffix :
        IF file = NoFile
        THEN /\ upReqs' = [upReqs EXCEPT ![i].pc = "accepted"]
             /\ UNCHANGED fsFiles
        ELSE IF ~backendFileFilter(file)
        THEN /\ upReqs' = [upReqs EXCEPT ![i] = answered([@ EXCEPT !.file = file], 0, TRUE)]
             /\ UNCHANGED fsFiles
        ELSE /\ upReqs' = [upReqs EXCEPT ![i].pc = "accepted", ![i].file = file,
                                         ![i].path = backendFilename(file, suffix)]
             /\ fsFiles' = fsFiles \cup {backendFilename(file, suffix)}
    /\ UNCHANGED mlReqs

\* Backend, the handler of POST /api/upload up to its await: 400 without a
\* file, 400 and the file deleted for a file that is no CSV, otherwise the
\* file is sent to the ML service.
PostUpload(i) ==
    /\ upReqs[i].pc = "accepted"
    /\ IF upReqs[i].file = NoFile
       THEN /\ upReqs' = [upReqs EXCEPT ![i] = answered(@, 400, FALSE)]
            /\ UNCHANGED fsFiles
       ELSE IF extToLowerCase(extname(upReqs[i].file.originalname)) # ".csv"
       THEN /\ fsFiles' = unlinkIfExists(fsFiles, upReqs[i].path)
            /\ upReqs' = [upReqs EXCEPT ![i] = answered(@, 400, FALSE)]
       ELSE /\ upReqs' = [upReqs EXCEPT ![i].pc = "ml"]
            /\ UNCHANGED fsFiles
    /\ UNCHANGED mlReqs

\* Backend, after mlService.processCSVFile settles: 200 for a result, 500 when
\* the call failed or the result has no predictions; the finally deletes the
\* file in the same turn.
PostUploadSettle(i) ==
    /\ upReqs[i].pc = "ml"
    /\ \E mlOutcome \in {"result", "no predictions", "failed"} :
        upReqs' = [upReqs EXCEPT
                     ![i] = answered(@, IF mlOutcome = "result" THEN 200 ELSE 500, FALSE)]
    /\ fsFiles' = unlinkIfExists(fsFiles, upReqs[i].path)
    /\ UNCHANGED mlReqs

\* ML service, upload.single('file')
ProcessCsvSingle(i) ==
    /\ mlReqs[i].pc = "idle"
    /\ i > 1 => mlReqs[i - 1].pc # "idle"
    /\ \E file \in UploadedFiles \cup {NoFile}, suffix \in 1..MaxSuffix :
        IF file = NoFile
        THEN /\ mlReqs' = [mlReqs EXCEPT ![i].pc = "accepted"]
             /\ UNCHANGED fsFiles
        ELSE IF ~mlFileFilter(file)
        THEN /\ mlReqs' = [mlReqs EXCEPT ![i] = answered([@ EXCEPT !.file = file], 0, TRUE)]
             /\ UNCHANGED fsFiles
        ELSE /\ mlReqs' = [mlReqs EXCEPT ![i].pc = "accepted", ![i].file = file,
                                         ![i].inputPath = mlFilename(file, suffix)]
             /\ fsFiles' = fsFiles \cup {mlFilename(file, suffix)}
    /\ UNCHANGED upReqs

\* ML service, the handler of POST /process-csv up to its first await: 400
\* without a file (the finally finds no path set), otherwise the two paths are
\* set and preprocessCSV starts.
ProcessCsvBegin(i) ==
    /\ mlReqs[i].pc = "accepted"
    /\ IF mlReqs[i].file = NoFile
       THEN /\ mlReqs' = [mlReqs EXCEPT ![i] = answered(@, 400, FALSE)]
            /\ fsFiles' = cleanUpFiles(fsFiles, NoPath, NoPath)
       ELSE /\ mlReqs' = [mlReqs EXCEPT ![i].pc = "preprocess",
                                         ![i].outputPath =
                                            cleanedPath(mlReqs[i].inputPath)]
            /\ UNCHANGED fsFiles
    /\ UNCHANGED upReqs

\* ML service, preprocessCSV settles: the cleaned file is written, or reading
\* fails (as it does for a file that is gone), or no row is left to write, or
\* writing fails with the cleaned file begun; a failure is answered with 500
\* and the finally runs in the same turn.
Preprocess(i) ==
    /\ mlReqs[i].pc = "preprocess"
    /\ \E outcome \in IF mlReqs[i].inputPath \in fsFiles
                      THEN {"written", "read failed", "no data", "write failed"}
                      ELSE {"read failed"} :
        CASE outcome = "written" ->
                /\ fsFiles' = fsFiles \cup {mlReqs[i].outputPath}
                /\ mlReqs' = [mlReqs EXCEPT ![i].pc = "pipeline"]
          [] outcome = "write failed" ->
                /\ fsFiles' = cleanUpFiles(fsFiles \cup {mlReqs[i].outputPath},
                                           mlReqs[i].inputPath, mlReqs[i].outputPath)
                /\ mlReqs' = [mlReqs EXCEPT ![i] = answered(@, 500, FALSE)]
          [] OTHER ->
                /\ fsFiles' = cleanUpFiles(fsFiles, mlReqs[i].inputPath,
                                           mlReqs[i].outputPath)
                /\ mlReqs' = [mlReqs EXCEPT ![i] = answered(@, 500, FALSE)]
    /\ UNCHANGED upReqs

\* ML service, the rest of the pipeline (predict, savePredictionsToCSV,
\* saveTransactions, none of which touches the uploads directory): 200, or 500
\* when one of them throws; the finally runs in the same turn.
ProcessCsvSettle(i) ==
    /\ mlReqs[i].pc = "pipeline"
    /\ \E fault \in {"none", "predict", "csv", "db"} :
        mlReqs' = [mlReqs EXCEPT
                     ![i] = answered(@, IF fault = "none" THEN 200 ELSE 500, FALSE)]
    /\ fsFiles' = cleanUpFiles(fsFiles, mlReqs[i].inputPath, mlReqs[i].outputPath)
    /\ UNCHANGED upReqs

----------------------------------------------------------------------------
(* Specifications.  Each one runs one component; the variables of the others *)
(* keep their initial values.                                                *)

\* No request reached the API-key routes or apiKeyAuth.
ApiIdle == KeysIdle /\ TxIdle /\ UploadIdle

NormIdle ==
    /\ rawData = NoRows /\ cleanedData = NoRows /\ keptRows = NoRows
    /\ recleaned = NoRows /\ normPc = "off"

ScoreIdle ==
    /\ scoreRow = EmptyRow /\ scoreRnd = 0 /\ prediction = NoPrediction /\ scorePc = "off"

PipeIdle ==
    /\ pipeInput = NoRows /\ pipeResponse = NoResponse /\ pipePredictions = <<>>
    /\ pipeFault = "none" /\ pipePc = "off"

\* The preprocessor on one file.
NormNext ==
    \/ (Clean /\ UNCHANGED <<scoreVars, storeVars, queryVars, pipeVars, backendVars, apiVars>>)
    \/ (CleanAgain /\ UNCHANGED <<scoreVars, storeVars, queryVars, pipeVars, backendVars, apiVars>>)

InitNorm == NormInit /\ ScoreIdle /\ StoreInit /\ QueryIdle /\ PipeIdle /\ BackendIdle /\ ApiIdle

SpecNorm == InitNorm /\ [][NormNext]_vars

\* The scorer on one row.
ScoreNext == Score /\ UNCHANGED <<normVars, storeVars, queryVars, pipeVars, backendVars, apiVars>>

InitScore == ScoreInit /\ NormIdle /\ StoreInit /\ QueryIdle /\ PipeIdle /\ BackendIdle /\ ApiIdle

SpecScore == InitScore /\ [][ScoreNext]_vars

\* One request to the ML service.
PipeNext == ProcessCsv /\ UNCHANGED <<normVars, scoreVars, queryVars, backendVars, apiVars>>

InitPipe == PipeInit /\ NormIdle /\ ScoreIdle /\ QueryIdle /\ BackendIdle /\ ApiIdle

SpecPipe == InitPipe /\ [][PipeNext]_vars

\* Any sequence of saveTransactions calls, with GET /stats and
\* PATCH /alerts/:id requests in between.
Init == StoreInit /\ QueryIdle /\ NormIdle /\ ScoreIdle /\ PipeIdle /\ BackendIdle /\ ApiIdle

Next ==
    \/ (SaveTransactions /\ UNCHANGED <<normVars, scoreVars, pipeVars, backendVars, apiVars>>)
    \/ (GetTransactionStats /\ UNCHANGED <<normVars, scoreVars, pipeVars, backendVars, apiVars>>)
    \/ (PatchAlert /\ UNCHANGED <<normVars, scoreVars, pipeVars, backendVars, apiVars>>)

Spec == Init /\ [][Next]_vars

\* The backend answering /api/alerts requests and statistics calls.
InitBackend == BackendInit /\ StoreInit /\ QueryIdle /\ NormIdle /\ ScoreIdle /\ PipeIdle /\ ApiIdle

BackendNext ==
    \/ (PostAlert /\ UNCHANGED <<normVars, scoreVars, storeVars, queryVars, pipeVars, apiVars>>)
    \/ (PutStatus /\ UNCHANGED <<normVars, scoreVars, storeVars, queryVars, pipeVars, apiVars>>)
    \/ (PutResolve /\ UNCHANGED <<normVars, scoreVars, storeVars, queryVars, pipeVars, apiVars>>)
    \/ (PutBulk /\ UNCHANGED <<normVars, scoreVars, storeVars, queryVars, pipeVars, apiVars>>)
    \/ (GetAlertStats /\ UNCHANGED <<normVars, scoreVars, storeVars, queryVars, pipeVars, apiVars>>)
    \/ (GetFraudStats /\ UNCHANGED <<normVars, scoreVars, storeVars, queryVars, pipeVars, apiVars>>)

SpecBackend == InitBackend /\ [][BackendNext]_vars

\* The three statistics calls, on an empty or a filled store.
StatsInit ==
    /\ \E st \in StoresBefore :
        /\ transactions = st.transactions
        /\ alerts = st.alerts
        /\ nextId = st.nextId
        /\ saveCalls = st.saveCalls
        /\ submitted = st.saveCalls
    /\ saveResult = NoResult
    /\ lastAlertDocs = <<>>
    /\ lastBatch = <<>>

InitStats == StatsInit /\ QueryIdle /\ BackendInit /\ NormIdle /\ ScoreIdle /\ PipeIdle /\ ApiIdle

StatsNext ==
    \/ (GetTransactionStats /\ UNCHANGED <<normVars, scoreVars, pipeVars, backendVars, apiVars>>)
    \/ (PostAlert /\ UNCHANGED <<normVars, scoreVars, storeVars, queryVars, pipeVars, apiVars>>)
    \/ (GetAlertStats /\ UNCHANGED <<normVars, scoreVars, storeVars, queryVars, pipeVars, apiVars>>)
    \/ (GetFraudStats /\ UNCHANGED <<normVars, scoreVars, storeVars, queryVars, pipeVars, apiVars>>)

SpecStats == InitStats /\ [][StatsNext]_vars

\* GET requests to /api/alerts/..., between requests that create alerts and
\* change their status.
InitRoutes == BackendInit /\ StoreInit /\ QueryIdle /\ NormIdle /\ ScoreIdle /\ PipeIdle /\ ApiIdle

RoutesNext ==
    \/ (PostAlert /\ UNCHANGED <<normVars, scoreVars, storeVars, queryVars, pipeVars, apiVars>>)
    \/ (PutStatus /\ UNCHANGED <<normVars, scoreVars, storeVars, queryVars, pipeVars, apiVars>>)
    \/ (GetAlerts /\ UNCHANGED <<normVars, scoreVars, storeVars, queryVars, pipeVars, apiVars>>)

SpecRoutes == InitRoutes /\ [][RoutesNext]_vars

\* The components of the ML service and the alert routes, for the
\* specifications that leave them idle.
coreVars == <<normVars, scoreVars, storeVars, queryVars, pipeVars, backendVars>>

CoreIdle == StoreInit /\ QueryIdle /\ NormIdle /\ ScoreIdle /\ PipeIdle /\ BackendIdle

\* Concurrent requests presenting the keyId of one API key, and the monthly
\* reset.
InitAuth == AuthInit /\ CoreIdle /\ TxIdle /\ UploadIdle

AuthNext ==
    \/ (AuthFind /\ UNCHANGED <<coreVars, txVars, uploadVars>>)
    \/ (AuthSave /\ UNCHANGED <<coreVars, txVars, uploadVars>>)
    \/ (ResetMonthlyUsage /\ UNCHANGED <<coreVars, txVars, uploadVars>>)

SpecAuth == InitAuth /\ [][AuthNext]_vars

\* The life of an API key: creation, rotation, deactivation, expiry, and the
\* requests that present what was issued.
InitKeys == KeysIdle /\ CoreIdle /\ TxIdle /\ UploadIdle

KeysNext ==
    \/ (CreateKey /\ UNCHANGED <<coreVars, txVars, uploadVars>>)
    \/ (RotateKey /\ UNCHANGED <<coreVars, txVars, uploadVars>>)
    \/ (DeactivateKey /\ UNCHANGED <<coreVars, txVars, uploadVars>>)
    \/ (Tick /\ UNCHANGED <<coreVars, txVars, uploadVars>>)
    \/ (AuthFind /\ UNCHANGED <<coreVars, txVars, uploadVars>>)
    \/ (AuthSave /\ UNCHANGED <<coreVars, txVars, uploadVars>>)

SpecKeys == InitKeys /\ [][KeysNext]_vars

\* Concurrent requests to POST /api/transactions and POST /api/upload/save.
InitTx == TxIdle /\ KeysIdle /\ CoreIdle /\ UploadIdle

TxNext ==
    \/ (PostTransaction /\ UNCHANGED <<coreVars, keyVars, uploadVars>>)
    \/ (PostSave /\ UNCHANGED <<coreVars, keyVars, uploadVars>>)
    \/ (FindExisting /\ UNCHANGED <<coreVars, keyVars, uploadVars>>)
    \/ (CreateTransaction /\ UNCHANGED <<coreVars, keyVars, uploadVars>>)

SpecTx == InitTx /\ [][TxNext]_vars

\* Upload requests to the backend and to the ML service.
InitUpload == UploadInit /\ CoreIdle /\ KeysIdle /\ TxIdle

UploadNext ==
    \/ \E i \in 1..MaxUploads : UploadSingle(i) /\ UNCHANGED <<coreVars, keyVars, txVars>>
    \/ \E i \in 1..MaxUploads : PostUpload(i) /\ UNCHANGED <<coreVars, keyVars, txVars>>
    \/ \E i \in 1..MaxUploads : PostUploadSettle(i) /\ UNCHANGED <<coreVars, keyVars, txVars>>
    \/ \E i \in 1..MaxUploads : ProcessCsvSingle(i) /\ UNCHANGED <<coreVars, keyVars, txVars>>
    \/ \E i \in 1..MaxUploads : ProcessCsvBegin(i) /\ UNCHANGED <<coreVars, keyVars, txVars>>
    \/ \E i \in 1..MaxUploads : Preprocess(i) /\ UNCHANGED <<coreVars, keyVars, txVars>>
    \/ \E i \in 1..MaxUploads : ProcessCsvSettle(i) /\ UNCHANGED <<coreVars, keyVars, txVars>>

SpecUpload == InitUpload /\ [][UploadNext]_vars

----------------------------------------------------------------------------
(* Claims about the store (specification Spec) *)

oneDocumentPerId(coll) ==
    \A i, j \in 1..Len(coll) : coll[i].Transaction_ID = coll[j].Transaction_ID => i = j

\* C1: after any sequence of saveTransactions calls the alerts collection holds
\* at most one alert document per Transaction_ID.
C1_OneAlertPerTransaction == oneDocumentPerId(alerts)

\* C2: after any sequence of saveTransactions calls the transactions collection
\* holds at most one document per Transaction_ID, and a bulk insert that failed
\* on a duplicate key was followed by an upsert of every document of the batch,
\* in order.
C2_OneTransactionPerId ==
    /\ oneDocumentPerId(transactions)
    /\ saveResult.transactionFallback =>
            saveResult.upsertsAttempted =
                [i \in 1..Len(lastBatch) |-> lastBatch[i].Transaction_ID]

\* C2 witness: a call whose bulk insert met a duplicate key (the identifier was
\* stored by an earlier call), fell back to the upserts and returned.
C2_Witness ==
    /\ saveCalls >= 2
    /\ saveResult.success
    /\ saveResult.transactionFallback
    /\ Len(lastBatch) >= 2
    /\ Len(transactions) >= 2

\* C3: the alert documents a call builds and writes are exactly one per
\* prediction with risk_level HIGH or fraud_flag 1, in the order of the
\* predictions, and none for any other prediction.
C3_AlertsAreTheFlagged ==
    saveResult.success =>
        LET flagged == {i \in 1..Len(lastBatch) :
                            lastBatch[i].risk_level = "HIGH" \/ lastBatch[i].fraud_flag = 1}
            nth(k) == CHOOSE i \in flagged : Cardinality({j \in flagged : j < i}) = k - 1
        IN  /\ Len(lastAlertDocs) = Cardinality(flagged)
            /\ \A k \in 1..Len(lastAlertDocs) :
                  /\ lastAlertDocs[k].Transaction_ID = lastBatch[nth(k)].Transaction_ID
                  /\ lastAlertDocs[k].risk_level = lastBatch[nth(k)].risk_level
                  /\ lastAlertDocs[k].reason = lastBatch[nth(k)].reason
            /\ Len(alerts) >= Len(lastAlertDocs)
            /\ SubSeq(alerts, Len(alerts) - Len(lastAlertDocs) + 1, Len(alerts)) = lastAlertDocs

\* C3 witness: a call given a LOW prediction without the flag between flagged
\* ones, which wrote alerts for the flagged ones only.
C3_Witness ==
    /\ saveResult.success
    /\ Len(lastBatch) >= 3
    /\ lastBatch[1].risk_level = "MEDIUM" /\ lastBatch[1].fraud_flag = 1
    /\ lastBatch[2].risk_level = "LOW" /\ lastBatch[2].fraud_flag = 0
    /\ lastBatch[3].risk_level = "HIGH"
    /\ Len(lastAlertDocs) = 2

\* C4: every alert document created from a scored record has its status set to
\* "open".
C4_AlertStatusOpen ==
    \A i \in 1..Len(alerts) :
        /\ "status" \in DOMAIN alerts[i]
        /\ alerts[i].status = "open"

----------------------------------------------------------------------------
(* Claims about the scorer (specification SpecScore) *)

\* The record of the deterministic-component test: amount 1500, ATM, foreign,
\* credit card, night, scored with the random term 0.
DeterministicCase ==
    /\ scorePc = "scored"
    /\ scoreRnd = 0
    /\ scoreRow.Amount.n = 150000
    /\ scoreRow.Category.s = CatATM
    /\ scoreRow.Is_Foreign = 1
    /\ scoreRow.Payment_Method.s = PayCreditCard
    /\ scoreRow.Is_Night_Transaction = 1

\* C5 as stated: the deterministic case gives probability 1.0, HIGH, the fraud
\* flag, and exactly 5 reasons.
C5_FiveReasons ==
    DeterministicCase =>
        /\ prediction.ml_pred_prob = 100000
        /\ prediction.risk_level = "HIGH"
        /\ prediction.fraud_flag = 1
        /\ Len(prediction.reason) = 5

\* C5 amended: the deterministic case gives probability 1.0, HIGH, the fraud
\* flag, and the five reasons of the amount, night, category, foreign and
\* payment rules in that order, followed by the early-morning reason when the
\* hour is at most 7 and by the round-number reason (1500 is a multiple of
\* 100): 6 reasons at 22h and 23h, 7 from 0h to 6h.
C5_SixOrSevenReasons ==
    DeterministicCase =>
        /\ prediction.ml_pred_prob = 100000
        /\ prediction.risk_level = "HIGH"
        /\ prediction.fraud_flag = 1
        /\ prediction.reason =
              <<"High transaction amount (>$1000)", "Night time transaction (high risk)",
                "ATM transaction (very high risk)", "Foreign transaction (very high risk)",
                "Credit card transaction">>
              \o (IF scoreRow.Hour_of_Day <= 7 THEN <<"Very early morning transaction">>
                  ELSE <<>>)
              \o <<"Round number amount (suspicious pattern)">>
        /\ Len(prediction.reason) = (IF scoreRow.Hour_of_Day <= 6 THEN 7 ELSE 6)

\* C5 witness: the deterministic case scored at 23h.
C5_Witness == DeterministicCase /\ scoreRow.Hour_of_Day = 23 /\ Len(prediction.reason) = 6

\* C9: the reported probability of every prediction lies in [0.1, 1.0] and is
\* never below the base score 0.2, whatever the random term in [0, 0.3).
C9_ProbabilityRange ==
    scorePc = "scored" =>
        /\ prediction.ml_pred_prob >= 10000
        /\ prediction.ml_pred_prob <= 100000
        /\ prediction.ml_pred_prob >= 20000

\* C9 witness: a prediction whose rules add up to more than 1.0 and is reported
\* as 1.0 (the clamp acted).
C9_Witness ==
    /\ scorePc = "scored"
    /\ ruleScore(scoreRow, ScoreEnv.now) + scoreRnd > 100000
    /\ prediction.ml_pred_prob = 100000

\* C10: in every prediction fraud_flag is 1 iff ml_pred_prob > 0.3, and
\* risk_level is HIGH iff ml_pred_prob >= 0.5, MEDIUM iff 0.3 <= ml_pred_prob <
\* 0.5, LOW iff ml_pred_prob < 0.3.
C10_ReportedFieldsConsistent ==
    scorePc = "scored" =>
        /\ (prediction.fraud_flag = 1) <=> (prediction.ml_pred_prob > 30000)
        /\ (prediction.risk_level = "HIGH") <=> (prediction.ml_pred_prob >= 50000)
        /\ (prediction.risk_level = "MEDIUM") <=>
              (prediction.ml_pred_prob >= 30000 /\ prediction.ml_pred_prob < 50000)
        /\ (prediction.risk_level = "LOW") <=> (prediction.ml_pred_prob < 30000)

----------------------------------------------------------------------------
(* Claims about the preprocessor (specification SpecNorm) *)

\* The text in the amount column of a raw row, under the first alias that
\* holds a value.
amountColumn(row) == Or(Or(row.Amount, row.amount), row.AMOUNT)

\* s is a decimal number: an optional sign, digits, optionally a point and
\* digits, and nothing else (currency signs, thousands separators and
\* surrounding blanks set aside).
IsNumericText(s) ==
    LET u == trim(stripCurrency(s))
        v == IF u # <<>> /\ (Head(u) = "-" \/ Head(u) = "+") THEN Tail(u) ELSE u
        ip == digitPrefix(v)
        rest == SubSeq(v, Len(ip) + 1, Len(v))
    IN  /\ ip # <<>>
        /\ \/ rest = <<>>
           \/ /\ Head(rest) = "."
              /\ Len(rest) >= 2
              /\ digitPrefix(Tail(rest)) = Tail(rest)

\* The amount column of the row holds a number greater than 0.
HasPositiveAmount(row) ==
    /\ amountColumn(row).t = "str"
    /\ IsNumericText(amountColumn(row).s)
    /\ parseFloat(stripCurrency(amountColumn(row).s)).n > 0

\* C7: normalisation is idempotent: cleanData applied to the records it
\* returned keeps every record, with the same Transaction_ID, Amount, Merchant,
\* Category, User_ID, Location, Payment_Method and instant of Timestamp.
C7_CleanDataIdempotent ==
    normPc = "recleaned" =>
        /\ Len(recleaned) = Len(cleanedData)
        /\ \A i \in 1..Len(recleaned) :
              /\ recleaned[i].Transaction_ID = cleanedData[i].Transaction_ID
              /\ recleaned[i].Amount = cleanedData[i].Amount
              /\ recleaned[i].Merchant = cleanedData[i].Merchant
              /\ recleaned[i].Category = cleanedData[i].Category
              /\ recleaned[i].User_ID = cleanedData[i].User_ID
              /\ recleaned[i].Location = cleanedData[i].Location
              /\ recleaned[i].Payment_Method = cleanedData[i].Payment_Method
              /\ dateParse(recleaned[i].Timestamp.s) = dateParse(cleanedData[i].Timestamp.s)

\* C8: a row whose amount is non-numeric, zero or negative is absent from the
\* normalised output, every output row has an Amount greater than 0, and the
\* output has no more rows than the input.
C8_BadAmountsRejected ==
    normPc # "read" =>
        /\ \A i \in 1..Len(rawData) :
              ~HasPositiveAmount(rawData[i]) => \A k \in 1..Len(keptRows) : keptRows[k] # i
        /\ \A k \in 1..Len(cleanedData) :
              cleanedData[k].Amount.t = "num" /\ cleanedData[k].Amount.n > 0
        /\ Len(cleanedData) <= Len(rawData)

----------------------------------------------------------------------------
(* Claims about a pipeline run (specification SpecPipe) *)

\* C6: a run in which the normaliser rejects rows (some, or all of them) and
\* nothing else goes wrong is answered as a success whose statistics count the
\* rejected rows.
C6_RejectedRowsNeverFailTheRun ==
    (pipePc = "responded" /\ pipeFault = "none" /\ Len(pipeInput) > 0) =>
        /\ pipeResponse.success
        /\ pipeResponse.preprocessing.stats.removedRows
              = Len(pipeInput) - Len(pipeResponse.results)

----------------------------------------------------------------------------
(* Claims about failures (specifications SpecPipe and Spec) *)

\* C11: a response of /process-csv that reports failure carries the counts of
\* what had succeeded before the failure: the preprocessing counts, the
\* prediction counts and the database counts.
C11_FailureCarriesCounts ==
    (pipePc = "responded" /\ ~pipeResponse.success) =>
        {"preprocessing", "predictions", "database"} \subseteq DOMAIN pipeResponse

countTrue(flags) == Len(SelectSeq(flags, LAMBDA b : b))

\* What the per-record upsert of one collection must have done: every document
\* of docs was tried, and each one whose upsert went through is stored with the
\* fields this call gave it.
fallbackCompleted(coll, docs, done) ==
    /\ Len(done) = Len(docs)
    /\ \A i \in 1..Len(docs) :
          done[i] => \E j \in 1..Len(coll) :
                        /\ coll[j].Transaction_ID = docs[i].Transaction_ID
                        /\ coll[j].created_at = saveCalls

\* C12: when a bulk insert fails on a duplicate key and the records are
\* upserted one by one, an upsert that fails does not keep the later records
\* from being upserted, and the call still returns success (counting the
\* upserts that went through); for the transactions write and the alerts write.
C12_UpsertFailureDoesNotAbort ==
    /\ saveResult.transactionFallback =>
          /\ fallbackCompleted(transactions, lastBatch, saveResult.upsertsDone)
          /\ saveResult.thrownBy = "none" =>
                /\ saveResult.success
                /\ saveResult.transactionsInserted = countTrue(saveResult.upsertsDone)
    /\ saveResult.alertFallback =>
          /\ fallbackCompleted(alerts, lastAlertDocs, saveResult.alertUpsertsDone)
          /\ saveResult.success

\* C12 witness: a call that fell back to the upserts, in which the upsert of
\* one record failed and the upsert of a later record went through, and which
\* returned success.
C12_Witness ==
    /\ saveResult.transactionFallback
    /\ saveResult.success
    /\ \E i, j \in 1..Len(saveResult.upsertsDone) :
          i < j /\ ~saveResult.upsertsDone[i] /\ saveResult.upsertsDone[j]

----------------------------------------------------------------------------
(* Claims about the order and the counts of a run (specification SpecPipe) *)

\* The row passes isValidRow and cleanRow returns a record for it.
survives(row, env) == isValidRow(row) /\ cleanRow(row, env) # Null

\* The indices of the rows of data that survive, in increasing order.
survivors(data, envs) ==
    SelectSeq([i \in 1..Len(data) |-> i], LAMBDA i : survives(data[i], envs[i]))

----------------------------------------------------------------------------
(* Claims about the statistics (specification SpecStats) *)

\* The documents of coll a call with this date range aggregates.
inRange(coll, field, dateRange) ==
    SelectSeq(coll, LAMBDA doc : inDateRange(doc[field], dateRange))

allZero(stats) ==
    \A f \in DOMAIN stats :
        IF f = "avgFraudProbability" THEN stats[f] = ZeroNumber ELSE stats[f] = 0

\* C14: a statistics call that aggregates no record returns a result whose
\* counts, totals and average are all 0 and does not fail: getTransactionStats
\* on an empty store, getFraudStats and getAlertStats on an empty collection or
\* with a date range that holds no record.
C14_EmptyAggregateIsZero ==
    /\ (lastQuery.op = "stats" /\ transactions = <<>> /\ alerts = <<>>) =>
            /\ ~lastQuery.thrown
            /\ allZero(lastQuery.transactions)
            /\ \A k \in DOMAIN lastQuery.alerts : lastQuery.alerts[k] = 0
    /\ (bResponse.op = "alertStats"
            /\ inRange(bAlerts, "createdAt", bResponse.dateRange) = <<>>) =>
            /\ bResponse.data # Undef
            /\ DOMAIN bResponse.data = DOMAIN ZeroAlertStats
            /\ allZero(bResponse.data)
    /\ (bResponse.op = "fraudStats"
            /\ inRange(bTransactions, "timestamp", bResponse.dateRange) = <<>>) =>
            /\ bResponse.data # Undef
            /\ DOMAIN bResponse.data = DOMAIN ZeroFraudStats
            /\ allZero(bResponse.data)

\* C14 witness: getTransactionStats answered on an empty store, and
\* getAlertStats answered for a date range that holds none of the alerts of a
\* collection that is not empty.
C14_Witness ==
    /\ lastQuery.op = "stats" /\ transactions = <<>> /\ alerts = <<>>
    /\ bResponse.op = "alertStats"
    /\ bAlerts # <<>>
    /\ inRange(bAlerts, "createdAt", bResponse.dateRange) = <<>>

----------------------------------------------------------------------------
(* Claims about the enumerations (specification SpecNorm) *)

categoryColumn(row) ==
    Or(Or(Or(row.Category, row.category), row.CATEGORY), row.merchant_category)

SevenCategories == {CatEcommerce, CatRetail, CatGas, CatFood, CatATM, CatOnline, CatOther}

\* The member of the enumeration that text equals when case is set aside, if any.
categoriesEqualTo(text) == {c \in SevenCategories : toLowerCase(c) = toLowerCase(text)}

withoutCategory(row) ==
    [row EXCEPT !.Category = Undef, !.category = Undef, !.CATEGORY = Undef,
                !.merchant_category = Undef]

\* C15: the Category of every normalised record is one of the seven values; a
\* category that equals one of them when case is set aside becomes that value,
\* any other category and an absent one become "Other"; and a row is kept or
\* rejected as it would be without its category.
C15_CategoryClosure ==
    normPc # "read" =>
        /\ \A k \in 1..Len(cleanedData) :
              LET given == categoryColumn(rawData[keptRows[k]])
              IN  /\ cleanedData[k].Category.t = "str"
                  /\ cleanedData[k].Category.s \in SevenCategories
                  /\ IF given.t = "str" /\ categoriesEqualTo(given.s) # {}
                     THEN cleanedData[k].Category.s \in categoriesEqualTo(given.s)
                     ELSE cleanedData[k].Category.s = CatOther
        /\ \A i \in 1..Len(rawData) :
           \A env \in CallEnvs :
              survives(rawData[i], RowEnvs(env, i)[i])
                 = survives(withoutCategory(rawData[i]), RowEnvs(env, i)[i])

\* C15 witness: a kept row whose category is "Crypto", a kept row with no
\* category column and a kept row whose category is "atm", after cleanData.
C15_Witness ==
    /\ normPc = "cleaned"
    /\ \E k \in 1..Len(cleanedData) :
          /\ categoryColumn(rawData[keptRows[k]]) = Str(<<"C", "r", "y", "p", "t", "o">>)
          /\ cleanedData[k].Category = Str(CatOther)
    /\ \E k \in 1..Len(cleanedData) :
          \/ /\ categoryColumn(rawData[keptRows[k]]) = Undef
             /\ cleanedData[k].Category = Str(CatOther)
          \/ /\ categoryColumn(rawData[keptRows[k]]) = Str(<<"a", "t", "m">>)
             /\ cleanedData[k].Category = Str(CatATM)

methodColumn(row) ==
    Or(Or(Or(row.Payment_Method, row.payment_method), row.PaymentMethod), row.card_type)

FiveMethods == {PayCreditCard, PayDebitCard, PayBankTransfer, PayDigitalWallet, PayOther}

\* text is the name of a member once lower-cased, with every character that is
\* not a letter read as an underscore.
methodsEqualTo(text) == {m \in FiveMethods : underscoreNonLetters(toLowerCase(text)) = m}

\* C16: the Payment_Method of every normalised record is one of the
\* five values, and a row whose payment method is absent or matches no member
\* normalises to "other".
C16_AbsentOrUnmatchedIsOther ==
    normPc # "read" =>
        \A k \in 1..Len(cleanedData) :
            LET given == methodColumn(rawData[keptRows[k]])
            IN  /\ cleanedData[k].Payment_Method.s \in FiveMethods
                /\ (~Truthy(given) \/ methodsEqualTo(given.s) = {}) =>
                        cleanedData[k].Payment_Method.s = PayOther

\* What cleanData does with the payment method: every Payment_Method is one of
\* the five values; an absent or empty method becomes "credit_card", a method
\* that matches a member that member, and any other method "other".
PaymentMethodAsNormalised ==
    normPc # "read" =>
        \A k \in 1..Len(cleanedData) :
            LET given == methodColumn(rawData[keptRows[k]])
            IN  /\ cleanedData[k].Payment_Method.t = "str"
                /\ cleanedData[k].Payment_Method.s \in FiveMethods
                /\ IF ~Truthy(given) THEN cleanedData[k].Payment_Method.s = PayCreditCard
                   ELSE IF methodsEqualTo(given.s) # {}
                   THEN cleanedData[k].Payment_Method.s \in methodsEqualTo(given.s)
                   ELSE cleanedData[k].Payment_Method.s = PayOther

----------------------------------------------------------------------------
(* Claims about the score before the random term (specification SpecScore) *)

\* The tier boundaries 100, 500 and 1000, in cents.
TierBoundaries == {10000, 50000, 100000}

\* a < b lie on opposite sides of a tier boundary (a tier starts above it).
crossesTier(a, b) == a < b /\ \E t \in TierBoundaries : a <= t /\ t < b

withAmount(row, a) == [row EXCEPT !.Amount = Num(a)]

\* C17: with every other feature of the row fixed, an amount a below a tier
\* boundary never scores higher, before the random term, than an amount b
\* above that boundary.
C17_MonotoneAcrossTiers ==
    \A a \in AmountSamples :
        crossesTier(a, scoreRow.Amount.n) =>
            ruleScore(withAmount(scoreRow, a), ScoreEnv.now)
                <= ruleScore(scoreRow, ScoreEnv.now)

\* C17 witness: a row of 100.01 was scored; 100 is a round amount on the other
\* side of the boundary, and scores lower.
C17_Witness ==
    /\ scorePc = "scored"
    /\ scoreRow.Amount.n = 10001
    /\ crossesTier(10000, scoreRow.Amount.n)
    /\ roundAmountRule(withAmount(scoreRow, 10000)).w > 0
    /\ ruleScore(withAmount(scoreRow, 10000), ScoreEnv.now)
          < ruleScore(scoreRow, ScoreEnv.now)

\* The score of the claim, in 1/100000: 0.2, one amount tier, night, one
\* category weight, foreign, one payment weight, early morning, round amount.
statedScore(row) ==
    20000
    + (IF row.Amount.n > 100000 THEN 60000
       ELSE IF row.Amount.n > 50000 THEN 40000
       ELSE IF row.Amount.n > 10000 THEN 20000 ELSE 0)
    + (IF row.Is_Night_Transaction = 1 THEN 30000 ELSE 0)
    + (IF row.Category.s = CatATM THEN 40000
       ELSE IF row.Category.s \in {CatOnline, CatEcommerce} THEN 30000
       ELSE IF row.Category.s \in {CatGas, CatFood} THEN 10000 ELSE 0)
    + (IF row.Is_Foreign = 1 THEN 40000 ELSE 0)
    + (IF row.Payment_Method.s = PayDigitalWallet THEN 20000
       ELSE IF row.Payment_Method.s = PayCreditCard THEN 15000 ELSE 0)
    + (IF row.Hour_of_Day \in 0..7 THEN 25000 ELSE 0)
    + (IF row.Amount.n % 10000 = 0 THEN 10000 ELSE 0)

\* C20: the score of every feature record before the random term is the sum
\* the claim states (for hours 0..6 the night weight and the early-morning
\* weight are both in it), and the reported probability is that sum plus the
\* random term, capped at 1 and rounded to four places.
C20_ScoreIsTheStatedSum ==
    /\ ruleScore(scoreRow, ScoreEnv.now) = statedScore(scoreRow)
    /\ scoreRow.Hour_of_Day \in 0..6 =>
          nightRule(scoreRow).w + earlyMorningRule(scoreRow, ScoreEnv.now).w = 55000
    /\ scorePc = "scored" =>
          prediction.ml_pred_prob
              = toFixed4(Min(100000, statedScore(scoreRow) + scoreRnd))

\* C20 witness: a row at 6h was scored with both the night and the
\* early-morning weight, below the cap.
C20_Witness ==
    /\ scorePc = "scored"
    /\ scoreRow.Hour_of_Day = 6
    /\ scoreRow.Is_Night_Transaction = 1
    /\ scoreRnd = 0
    /\ prediction.ml_pred_prob = 75000
    /\ Len(prediction.reason) = 2

----------------------------------------------------------------------------
(* Claims about alert statuses (specification SpecBackend) and the counts of *)
(* a run (specification SpecPipe)                                            *)

\* C18: after any sequence of alert creations, status changes, resolutions and
\* bulk updates, the status of every alert is one of open, investigating,
\* resolved, false_positive.
C18_AlertStatusInEnumeration ==
    \A i \in 1..Len(bAlerts) :
        bAlerts[i].status \in {"open", "investigating", "resolved", "false_positive"}

\* C19: the response of a successful run reports totalPredictions as the
\* number of predictions, fraudulentTransactions as the number of predictions
\* whose fraud flag is set and highRiskTransactions as the number whose risk
\* level is HIGH.
C19_SummaryCounts ==
    (pipePc = "responded" /\ pipeResponse.success) =>
        /\ pipeResponse.predictions.totalPredictions = Len(pipeResponse.results)
        /\ pipeResponse.predictions.fraudulentTransactions
              = Cardinality({k \in 1..Len(pipeResponse.results) :
                                pipeResponse.results[k].fraud_flag = 1})
        /\ pipeResponse.predictions.highRiskTransactions
              = Cardinality({k \in 1..Len(pipeResponse.results) :
                                pipeResponse.results[k].risk_level = "HIGH"})

\* C19 witness: a successful run whose three counts differ: two predictions,
\* one of them flagged, none of them HIGH.
C19_Witness ==
    /\ pipePc = "responded" /\ pipeResponse.success
    /\ pipeResponse.predictions.totalPredictions = 2
    /\ pipeResponse.predictions.fraudulentTransactions = 1
    /\ pipeResponse.predictions.highRiskTransactions = 0

----------------------------------------------------------------------------
(* Claims about alias resolution (specification SpecNorm) *)

IdAliases == <<"Transaction_ID", "TransactionID", "transaction_id", "id">>
AmountAliases == <<"Amount", "amount", "AMOUNT">>

\* The aliases of a field, in priority order, that hold a non-empty value.
nonEmptyAliases(row, aliases) == SelectSeq(aliases, LAMBDA a : ~isEmpty(row[a]))

\* C21: the first alias holding a non-empty value supplies the field: a row
\* whose first non-empty amount alias holds a positive number and that has a
\* non-empty identifier alias is kept, with the Amount and the Transaction_ID
\* read from those aliases, neither rejected nor given a generated identifier.
C21_FirstNonEmptyAliasWins ==
    normPc # "read" =>
        \A i \in 1..Len(rawData) :
            LET row == rawData[i]
                ids == nonEmptyAliases(row, IdAliases)
                amounts == nonEmptyAliases(row, AmountAliases)
            IN  (/\ ids # <<>>
                 /\ amounts # <<>>
                 /\ IsNumericText(row[Head(amounts)].s)
                 /\ parseFloat(stripCurrency(row[Head(amounts)].s)).n > 0)
                => \E k \in 1..Len(keptRows) :
                      /\ keptRows[k] = i
                      /\ cleanedData[k].Amount
                            = parseFloat(stripCurrency(row[Head(amounts)].s))
                      /\ cleanedData[k].Transaction_ID = Str(trim(row[Head(ids)].s))

\* The same, for the rows whose higher-priority aliases are absent or the
\* empty text, the values JavaScript's || passes over.
falsyBefore(row, aliases) ==
    \A j \in 1..Len(aliases) :
        (\A m \in 1..j : isEmpty(row[aliases[m]])) => ~Truthy(row[aliases[j]])

AliasResolutionAsCoded ==
    normPc # "read" =>
        \A i \in 1..Len(rawData) :
            LET row == rawData[i]
                ids == nonEmptyAliases(row, IdAliases)
                amounts == nonEmptyAliases(row, AmountAliases)
            IN  (/\ ids # <<>>
                 /\ amounts # <<>>
                 /\ Head(amounts) # "AMOUNT"
                 /\ falsyBefore(row, IdAliases)
                 /\ falsyBefore(row, AmountAliases)
                 /\ row[Head(ids)] # Str(<<"u", "n", "d", "e", "f", "i", "n", "e", "d">>)
                 /\ IsNumericText(row[Head(amounts)].s)
                 /\ parseFloat(stripCurrency(row[Head(amounts)].s)).n > 0)
                => \E k \in 1..Len(keptRows) :
                      /\ keptRows[k] = i
                      /\ cleanedData[k].Amount
                            = parseFloat(stripCurrency(row[Head(amounts)].s))
                      /\ cleanedData[k].Transaction_ID = Str(trim(row[Head(ids)].s))

----------------------------------------------------------------------------
(* Claims about the reasons of a prediction (specification SpecScore) *)

\* The reasons of each rule group, the groups in evaluation order.
ReasonGroups ==
    <<{"High transaction amount (>$1000)", "Medium transaction amount (>$500)",
       "Above average amount (>$100)"},
      {"Night time transaction (high risk)"},
      {"ATM transaction (very high risk)", "Online/E-commerce transaction (high risk)",
       "Common fraud category"},
      {"Foreign transaction (very high risk)"},
      {"Digital wallet payment (higher risk)", "Credit card transaction"},
      {"Very early morning transaction"},
      {"Round number amount (suspicious pattern)"}>>

groupsOf(reason) == {g \in 1..Len(ReasonGroups) : reason \in ReasonGroups[g]}

\* No rule applies to the row: at most $100 and not a multiple of $100, between
\* 8h and 21h, a category other than ATM, Online, E-commerce, Gas and Food, not
\* foreign, paid neither by digital wallet nor by credit card.
noRuleApplies(row) ==
    /\ row.Amount.n <= 10000
    /\ row.Amount.n % 10000 # 0
    /\ row.Hour_of_Day >= 8 /\ row.Hour_of_Day <= 21
    /\ row.Is_Night_Transaction = 0
    /\ row.Category.s \notin {CatATM, CatOnline, CatEcommerce, CatGas, CatFood}
    /\ row.Is_Foreign = 0
    /\ row.Payment_Method.s \notin {PayDigitalWallet, PayCreditCard}

\* C22: the reasons of a prediction appear in evaluation order (amount tier,
\* night, category, foreign, payment method, early morning, round number) with
\* at most one reason of each group, and the reason is the single baseline text
\* exactly when no rule fired.
C22_ReasonsInEvaluationOrder ==
    scorePc = "scored" =>
        /\ (prediction.reason = <<"Baseline fraud risk detected">>) <=> noRuleApplies(scoreRow)
        /\ ~noRuleApplies(scoreRow) =>
              /\ \A i \in 1..Len(prediction.reason) :
                    Cardinality(groupsOf(prediction.reason[i])) = 1
              /\ \A i, j \in 1..Len(prediction.reason) :
                    i < j => \A g \in groupsOf(prediction.reason[i]) :
                                \A h \in groupsOf(prediction.reason[j]) : g < h

\* C22 witness: a prediction in which all seven rule groups fired.
C22_Witness ==
    /\ scorePc = "scored"
    /\ Len(prediction.reason) = 7
    /\ prediction.reason[1] = "High transaction amount (>$1000)"
    /\ prediction.reason[7] = "Round number amount (suspicious pattern)"

\* A prediction of a row to which no rule applies.
BaselinePrediction ==
    /\ scorePc = "scored"
    /\ noRuleApplies(scoreRow)
    /\ prediction.reason = <<"Baseline fraud risk detected">>

----------------------------------------------------------------------------
(* Claims about the statistics of a written store (specification Spec) *)

\* C23: in every store state reached through saveTransactions, also one that
\* holds alerts it wrote, getTransactionStats returns a statistics object and
\* raises no error.
C23_StatsNeverThrow ==
    lastQuery.op = "stats" => ~lastQuery.thrown

\* The statistics of a store without alerts are returned.
StatsWithoutAlerts ==
    (lastQuery.op = "stats" /\ alerts = <<>>) =>
        /\ ~lastQuery.thrown
        /\ lastQuery.transactions.totalTransactions = Len(transactions)

----------------------------------------------------------------------------
(* Claims relating risk level, fraud flag and alerts (SpecPipe, SpecScore) *)

\* C24: in every prediction of a run HIGH implies the fraud flag and LOW
\* implies its absence; hence in a successful run the number of alert documents
\* built (alertsCreated) equals fraudulentTransactions, and
\* highRiskTransactions <= fraudulentTransactions <= totalPredictions.
C24_LevelBoundsFlag ==
    pipePc = "responded" =>
        /\ \A i \in 1..Len(pipePredictions) :
              /\ pipePredictions[i].risk_level = "HIGH" => pipePredictions[i].fraud_flag = 1
              /\ pipePredictions[i].risk_level = "LOW" => pipePredictions[i].fraud_flag = 0
        /\ pipeResponse.success =>
              /\ pipeResponse.database.alertsCreated
                    = pipeResponse.predictions.fraudulentTransactions
              /\ pipeResponse.database.alertsCreated = Len(lastAlertDocs)
              /\ pipeResponse.predictions.highRiskTransactions
                    <= pipeResponse.predictions.fraudulentTransactions
              /\ pipeResponse.predictions.fraudulentTransactions
                    <= pipeResponse.predictions.totalPredictions

\* C24 witness: a successful run of one HIGH and one MEDIUM prediction, both
\* flagged, for which two alerts were built.
C24_Witness ==
    /\ pipePc = "responded" /\ pipeResponse.success
    /\ Len(pipePredictions) = 2
    /\ pipePredictions[1].risk_level = "HIGH"
    /\ pipePredictions[2].risk_level = "MEDIUM" /\ pipePredictions[2].fraud_flag = 1
    /\ pipeResponse.database.alertsCreated = 2

\* The same relation of level and flag over the sampled scorer inputs.
LevelBoundsFlagOfEveryScore ==
    scorePc = "scored" =>
        /\ prediction.risk_level = "HIGH" => prediction.fraud_flag = 1
        /\ prediction.risk_level = "LOW" => prediction.fraud_flag = 0

----------------------------------------------------------------------------
(* Claims about alerts and their transactions (specification Spec) *)

\* C25: when saveTransactions returns a success result, every alert document it
\* wrote has a transaction document with the same Transaction_ID in the
\* transactions collection, also when upserts of the duplicate-key fallback
\* failed.
C25_AlertsHaveTransactions ==
    saveResult.success =>
        \A k \in 1..Len(lastAlertDocs) :
            /\ \E a \in 1..Len(alerts) : alerts[a] = lastAlertDocs[k]
            /\ matching(transactions, lastAlertDocs[k].Transaction_ID) # {}

\* C25 witness: a successful call that fell back to upserts, one of which
\* failed for a record the call wrote an alert for.
C25_Witness ==
    /\ saveResult.success
    /\ saveResult.transactionFallback
    /\ \E k \in 1..Len(saveResult.upsertsDone) :
          /\ ~saveResult.upsertsDone[k]
          /\ \E a \in 1..Len(lastAlertDocs) :
                lastAlertDocs[a].Transaction_ID = saveResult.upsertsAttempted[k]

----------------------------------------------------------------------------
(* Claims about API keys (specifications SpecAuth and SpecKeys) *)

\* C26: for one API key and any interleaving of concurrent requests, the
\* number of requests apiKeyAuth admitted since the last reset of monthly usage
\* never exceeds usage.monthlyLimit, and usage.monthlyRequests equals that
\* number.
C26_AdmittedWithinLimit ==
    \A i \in 1..Len(kKeys) :
        /\ kAdmitted[i] <= kKeys[i].usage.monthlyLimit
        /\ kKeys[i].usage.monthlyRequests = kAdmitted[i]

\* The responses that issued a key value for the key with this keyId, as
\* indices of kIssued.
issuancesOf(keyId) == {n \in 1..Len(kIssued) : kIssued[n].keyId = keyId}

\* The key value issued last for the key: by its creation, or by its latest
\* rotation.
currentKeyValue(keyId) ==
    kIssued[CHOOSE n \in issuancesOf(keyId) : \A m \in issuancesOf(keyId) : m <= n].key

\* The request came from an address the key allows.
ipAllowed(keyRecord, ip) == keyRecord.ipWhitelist = {} \/ ip \in keyRecord.ipWhitelist

\* C27: a request presenting the key value that creation or the latest rotation
\* returned is admitted by apiKeyAuth while the key is active, unexpired and
\* under its limit, and a request that presents, after a rotation, a key value
\* issued before it is not admitted.
C27_IssuedKeyAccepted ==
    \A r \in 1..MaxAuthRequests :
        kReqs[r].pc = "done" =>
            \A i \in 1..Len(kKeys) :
                /\ (/\ kReqs[r].presented = currentKeyValue(kKeys[i].keyId)
                    /\ kKeys[i].isActive
                    /\ ~isExpired(kKeys[i], kNow)
                    /\ checkRateLimit(kKeys[i])
                    /\ ipAllowed(kKeys[i], kReqs[r].ip))
                   => kReqs[r].admitted
                /\ (\E n, m \in issuancesOf(kKeys[i].keyId) :
                        /\ n < m /\ m <= kReqs[r].at
                        /\ kReqs[r].presented = kIssued[n].key)
                   => ~kReqs[r].admitted

\* What apiKeyAuth does accept: a request is admitted only when it presents
\* the keyId of a key, and a request presenting the keyId of an active,
\* unexpired key under its limit is admitted, before and after a rotation.
KeyIdIsTheCredential ==
    \A r \in 1..MaxAuthRequests :
        kReqs[r].pc = "done" =>
            /\ kReqs[r].admitted => \E i \in 1..Len(kKeys) : kReqs[r].presented = kKeys[i].keyId
            /\ \A i \in 1..Len(kKeys) :
                  (/\ kReqs[r].presented = kKeys[i].keyId
                   /\ kKeys[i].isActive
                   /\ ~isExpired(kKeys[i], kNow)
                   /\ checkRateLimit(kKeys[i])
                   /\ ipAllowed(kKeys[i], kReqs[r].ip))
                  => kReqs[r].admitted

\* A request admitted on the keyId after the key was rotated.
AdmittedAfterRotation ==
    \E r \in 1..MaxAuthRequests :
        /\ kReqs[r].admitted
        /\ \E n \in 1..kReqs[r].at : kIssued[n].by = "rotate"

----------------------------------------------------------------------------
(* Claims about the transaction routes (specification SpecTx) *)

oneTransactionPerId(coll) ==
    \A j, k \in 1..Len(coll) : coll[j].transactionId = coll[k].transactionId => j = k

\* Every record of the /save request was dealt with and counted, as saved or
\* as an error, and the request was answered with the counts.
answeredWithCounts(p) ==
    /\ p.status = 200
    /\ p.i = Len(p.data)
    /\ p.saved + p.errors = Len(p.data)

\* C28: under any interleaving of POST /api/transactions and
\* POST /api/upload/save requests the store holds at most one transaction per
\* transactionId and no step changes a stored transaction; in /save a rejected
\* record does not stop the later records, and savedCount + errorCount equals
\* the number of submitted records.
C28_OnePerIdAndAllCounted ==
    [][/\ oneTransactionPerId(tStore')
       /\ Len(tStore') >= Len(tStore)
       /\ SubSeq(tStore', 1, Len(tStore)) = tStore
       /\ \A r \in 1..MaxTxRequests :
             (tReqs'[r].kind = "save" /\ tReqs'[r].pc = "done" /\ Len(tReqs'[r].data) > 0)
             => answeredWithCounts(tReqs'[r])]_vars

\* The same, for the /save requests whose data array holds objects only.
OnePerIdAndObjectsCounted ==
    [][/\ oneTransactionPerId(tStore')
       /\ Len(tStore') >= Len(tStore)
       /\ SubSeq(tStore', 1, Len(tStore)) = tStore
       /\ \A r \in 1..MaxTxRequests :
             (/\ tReqs'[r].kind = "save" /\ tReqs'[r].pc = "done" /\ Len(tReqs'[r].data) > 0
              /\ \A n \in 1..Len(tReqs'[r].data) : tReqs'[r].data[n].t = "object")
             => answeredWithCounts(tReqs'[r])]_vars

\* Two requests that both found the same transactionId absent, one of which
\* created the transaction and the other of which was refused by the index.
LostRaceRefused ==
    /\ Len(tStore) = 1
    /\ \E r, q \in 1..MaxTxRequests :
          /\ r # q
          /\ tStore[1].by = r
          /\ tReqs[q].pc = "done" /\ tReqs[q].kind = "save" /\ tReqs[q].errors = 1
          /\ tReqs[q].data = <<[t |-> "object", transactionId |-> tStore[1].transactionId,
                                valid |-> TRUE]>>
          /\ tReqs[r].pc = "done" /\ tReqs[r].kind = "post"


----------------------------------------------------------------------------
(* Claims about the /api/alerts router *)

\* C29: a GET request for /api/alerts/stats is dispatched to the
\* alert-statistics handler and is answered with the alert statistics, with
\* overdueAlerts and period.
C29_StatsRouteReachesStatsHandler ==
    (bResponse.op = "get" /\ bResponse.path = <<"stats">>) =>
        /\ bResponse.handler = "getAlertStats"
        /\ bResponse.status = 200
        /\ Len(bResponse.data) = 1
        /\ {"totalAlerts", "overdueAlerts", "period"} \subseteq DOMAIN bResponse.data[1]

\* What the router does with GET /api/alerts/stats: '/:id', registered ahead of
\* '/stats', takes it with id 'stats', and the cast error goes to next.
StatsPathTakenAsId ==
    (bResponse.op = "get" /\ bResponse.path = <<"stats">>) =>
        /\ bResponse.handler = "getAlert"
        /\ bResponse.passedToNext
        /\ bResponse.data = <<>>

\* No GET request reaches the statistics handler.
StatsHandlerUnreached == bResponse.op = "get" => bResponse.handler # "getAlertStats"

\* A GET for the id of a stored alert is answered with that alert.
AlertFetchedById ==
    /\ bResponse.op = "get" /\ bResponse.path = <<"id1">>
    /\ bResponse.status = 200 /\ bResponse.data = <<bAlerts[1]>>


----------------------------------------------------------------------------
(* Claims about the upload handlers *)

NoTempFilesAtRest ==
    ((\A i \in 1..MaxUploads : upReqs[i].pc \in {"off", "idle", "done"})
     /\ (\A i \in 1..MaxUploads : mlReqs[i].pc \in {"off", "idle", "done"}))
        => fsFiles = {}

\* The backend has refused a stored JSON file and answered a CSV upload with 200.
BackendPathsTaken ==
    /\ \E i \in 1..MaxUploads :
        /\ upReqs[i].pc = "done" /\ upReqs[i].status = 400
        /\ upReqs[i].file.originalname = "data.json"
    /\ \E i \in 1..MaxUploads : upReqs[i].pc = "done" /\ upReqs[i].status = 200

\* The ML service has answered 500 to one request after its cleaned file was
\* written, while another request of the same file name is still running.
ProcessingFailureTaken ==
    \E i, j \in 1..MaxUploads :
        /\ mlReqs[i].pc = "done" /\ mlReqs[i].status = 500
        /\ mlReqs[i].outputPath # NoPath
        /\ mlReqs[j].pc = "pipeline" /\ mlReqs[j].inputPath = mlReqs[i].inputPath

====
